---- MODULE Spec2Model ----
(***************************************************************************)
(* Avy: a Wayland layer-surface client with a GPU presentation path.       *)
(*                                                                         *)
(* The crate holds two programs.  The library (lib.rs: app.rs, util/,      *)
(* wayland/, graphics/) is AvyClient, which keeps the registry of          *)
(* surfaces, routes seat input and renders through VulkanSurface.  The     *)
(* binary (main.rs) is a standalone engine that drives AvySwapchain        *)
(* through fill_frame.  The variable program says which of the two runs.   *)
(***************************************************************************)
EXTENDS Integers, Sequences, FiniteSets, TLC

VARIABLES
    program,            \* "lib" (AvyClient) or "bin" (main.rs)
    surfaces,           \* AvyClient.surfaces: id -> [size, viewport]
    surface_backends,   \* AvyClient.surface_backends: id -> VulkanSurface
    keyboard_focus,     \* AvyClient.keyboard_focus: None or an id
    aborted,            \* the process panicked (an unwrap/expect failed)
    log,                \* the seat and shell events handled so far and the
                        \* handlers each invoked
    frame,              \* what the last VulkanSurface::render call did
    stats,              \* totals of swapchain builds, presents and render calls
    sent,               \* the geometry the compositor sent last, and how many
                        \* geometry events it sent since the last render call
    app,                \* main.rs: App.size and App.changed_size
    swapchain,          \* main.rs: the AvySwapchain
    fill,               \* what the last AvySwapchain::fill_frame call did
    active_touches,     \* AvyClient.active_touches: touch id -> surface
    attach,             \* what the last construction of a swapchain chose
    reading,            \* the RwLock<Size> of a surface: the render call that
                        \* holds its read guard and what that call has read
    seat                \* AvyClient.pointer, relative_pointer, keyboard and
                        \* touch, and the capabilities the seat has

vars == <<program, surfaces, surface_backends, keyboard_focus, aborted,
          log, frame, stats, sent, app, swapchain, fill, active_touches,
          attach, reading, seat>>

libvars == <<surfaces, surface_backends, keyboard_focus, aborted, log, frame,
             stats, sent, active_touches>>
binvars == <<app, swapchain, fill>>

(***************************************************************************)
(* Bounds of the model.                                                    *)
(***************************************************************************)
MaxSurfaces == 2    \* surface identities 1..MaxSurfaces
MaxRenders == 2     \* render calls per run
MaxPending == 2     \* geometry events between two render calls
MaxEvents == 4      \* seat events per run
MaxImages == 2      \* images of the standalone engine's swapchain
MaxTouches == 2     \* touch ids
MaxFrames == 1      \* pointer frames per run
MaxLogical == 60    \* the logical width, and heights 1..MaxLogical, of SpecSize

\* HashMap::new
Empty == [x \in {} |-> 0]

\* Option<T>: None is the empty tuple, Some(x) the tuple of x.
None == <<>>
Some(x) == <<x>>
unwrap(o) == o[1]
SurfaceIds == 1..MaxSurfaces
\* Layer sizes: a bar and a taller bar.  At the scale 1.25 the width is
\* exact (5), the height 1 rounds down (1.25) and the height 2 is a half (2.5).
LogicalSizes == {<<4, 1>>, <<4, 2>>}
\* wp_fractional_scale_v1 preferred_scale numerators: 1.0 and 1.25
ScaleNumerators == {120, 150}

(***************************************************************************)
(* ScaleFactor (wayland/protocol/fractional_scale.rs)                      *)
(***************************************************************************)
DENOMINATOR == 120

\* floor(log2(num / den)), the binary exponent of a positive quotient
RECURSIVE floor_log2(_, _)
floor_log2(num, den) ==
    IF num >= 2 * den THEN floor_log2(num, 2 * den) + 1
    ELSE IF num < den THEN floor_log2(2 * num, den) - 1
    ELSE 0

\* 2^k
RECURSIVE pow2(_)
pow2(k) == IF k = 0 THEN 1 ELSE 2 * pow2(k - 1)
\* 2^k modulo 120, for k >= 3: 2^k = 8 * 2^(k-3), and 2^j modulo 15 has the
\* period 4 (1, 2, 4, 8)
pow2mod(k, m) == (8 * pow2((k - 3) % 4)) % m

\* as_f64: self.0 as f64 / 120.0, an f64 with a 53-bit significand.  With
\* s == 52 - floor_log2(n / 120) the result is M / 2^s for the integer M
\* nearest to n * 2^s / 120; the value here is 120 * M - n * 2^s, the error
\* of the division in units of 1 / (120 * 2^s).  (n * 2^s is a multiple of
\* 8, so the division is never a tie.)
as_f64_error(n) ==
    LET s == 52 - floor_log2(n, DENOMINATOR)
        r == ((n % DENOMINATOR) * pow2mod(s, DENOMINATOR)) % DENOMINATOR
    IN  IF 2 * r < DENOMINATOR THEN 0 - r ELSE DENOMINATOR - r

\* dim * as_f64 in f64 where dim * n / 120 is exactly a half k + 1/2: the
\* product is below the half iff as_f64 is below n / 120 by more than half
\* an f64 step below the half allows (the half has an even significand, so
\* a product just half a step below rounds to it).
product_below_half(n, dim) ==
    LET d == as_f64_error(n)
        p == floor_log2(n, DENOMINATOR)
        q == floor_log2(dim * n, DENOMINATOR)
        steps == IF 2 * dim * n = DENOMINATOR THEN 4 ELSE 2
    IN  d < 0 /\ dim * (0 - d) * steps > DENOMINATOR * pow2(q - p)

\* scale without the scale factor
scale_unscaled(n, dim) == dim

\* scale: (dim.into() * self.as_f64()).round(), f64::round rounding halves
\* away from zero.  The f64 product is within 2^-40 of dim * n / 120, so it
\* rounds as dim * n / 120 does unless that is exactly a half.
scale(n, dim) ==
    LET num == dim * n
        k == num \div DENOMINATOR
        rem == num % DENOMINATOR
    IN  IF 2 * rem # DENOMINATOR
        THEN (IF 2 * rem > DENOMINATOR THEN k + 1 ELSE k)
        ELSE (IF product_below_half(n, dim) THEN k ELSE k + 1)

(***************************************************************************)
(* Size (util/size.rs)                                                     *)
(***************************************************************************)
Size_new(logical_size) ==
    [logical |-> logical_size, scale_factor |-> None, has_changed |-> FALSE]

logical_size(size) == size.logical

physical_size(size) ==
    IF size.scale_factor # None
    THEN <<scale(unwrap(size.scale_factor), size.logical[1]),
           scale(unwrap(size.scale_factor), size.logical[2])>>
    ELSE size.logical

\* resize, were the flag set only by a size that differs
resize_if_different(size, new_logical) ==
    IF new_logical = size.logical THEN size
    ELSE [size EXCEPT !.logical = new_logical, !.has_changed = TRUE]

\* Size::resize
resize(size, new_logical) ==
    [size EXCEPT !.logical = new_logical, !.has_changed = TRUE]

rescale(size, n) ==
    [size EXCEPT !.scale_factor = Some(n), !.has_changed = TRUE]

\* handle_changes calls the handler first, whatever has_changed holds ...
handler_calls(size) == 1

\* ... and then stores false into has_changed.
handle_changes(size) == [size EXCEPT !.has_changed = FALSE]

\* scale_canvas: the factor applied to the canvas, 120 (identity) when unset.
scale_canvas(size) ==
    IF size.scale_factor # None THEN unwrap(size.scale_factor) ELSE DENOMINATOR

(***************************************************************************)
(* AvyLayer (wayland/surface/layer.rs): a size and a viewport              *)
(***************************************************************************)
Unset == <<>>

AvyLayer_new(size) ==
    [size |-> size, viewport |-> [destination |-> Unset, source |-> Unset],
     committed |-> FALSE]

\* wl_surface().commit()
commit(surface) == [surface EXCEPT !.committed = TRUE]

\* The viewport update, were the source rectangle given the logical size.
update_viewport_source_logical(surface) ==
    LET l == logical_size(surface.size)
    IN  [surface EXCEPT !.viewport =
            [destination |-> l, source |-> <<0, 0, l[1], l[2]>>]]

\* "Update viewport." in configure and scale_factor_changed
update_viewport(surface) ==
    LET l == logical_size(surface.size)
        p == physical_size(surface.size)
    IN  [surface EXCEPT !.viewport =
            [destination |-> l, source |-> <<0, 0, p[1], p[2]>>]]

\* LayerShellHandler::configure on a registered surface
configure(surface, new_size) ==
    update_viewport([surface EXCEPT !.size = resize(@, new_size)])

\* FractionalScaleHandler::scale_factor_changed on a registered surface
scale_factor_changed(surface, factor) ==
    update_viewport([surface EXCEPT !.size = rescale(@, factor)])

\* configure, were the new size given to every surface of the map
configure_every_surface(map, id, new_size) ==
    [k \in DOMAIN map |-> configure(map[k], new_size)]

\* configure: self.surfaces.get_mut(&layer.wl_surface().id()) and the
\* handler's work on the record found
configure_surface(map, id, new_size) ==
    [map EXCEPT ![id] = configure(@, new_size)]

\* scale_factor_changed: self.surfaces.get_mut(&surface.id()) and the
\* handler's work on the record found
rescale_surface(map, id, factor) ==
    [map EXCEPT ![id] = scale_factor_changed(@, factor)]

(***************************************************************************)
(* VulkanSurface (graphics/vulkan.rs)                                      *)
(***************************************************************************)
RecreateResults == {"ok", "err"}
AcquireResults == {"ok", "suboptimal", "out_of_date", "err"}
SkiaResults == {"ok", "err"}
PresentResults == {"ok", "out_of_date", "err"}
\* What the device answers to the calls of one render call.  Only a call
\* that is made is answered: the answers after the one on which render
\* returns are "none".
DeviceAnswers ==
    {d \in [recreate : RecreateResults,
            acquire : AcquireResults \cup {"none"},
            skia : SkiaResults \cup {"none"},
            present : PresentResults \cup {"none"}] :
        /\ (d.acquire = "none") <=> (d.recreate = "err")
        /\ (d.skia = "none") <=> (d.acquire \notin {"ok", "suboptimal"})
        /\ (d.present = "none") <=> (d.skia # "ok")}

\* The surface formats a device may list for a surface, in the order it
\* lists them, and the list of a device that supports the usual ones.
Formats == {"B8G8R8A8_UNORM", "R8G8B8A8_UNORM"}
FormatLists ==
    {<<>>} \cup {<<a>> : a \in Formats} \cup {<<a, b>> : a, b \in Formats}
UsualFormats == <<"B8G8R8A8_UNORM", "R8G8B8A8_UNORM">>

\* find(|format| B8G8R8A8_UNORM == format)
find_format(formats) ==
    LET hits == SelectSeq(formats, LAMBDA f : f = "B8G8R8A8_UNORM")
    IN  IF hits = <<>> THEN None ELSE Some(Head(hits))

\* The calls of for_surface that may fail beside the choice of the format:
\* Device::new before it and Swapchain::new after it.
AttachFailures == {"none", "device", "swapchain"}

\* What a construction of a swapchain chose: the formats it was offered,
\* the format it took and how it ended.
NoAttach ==
    [program |-> "none", formats |-> <<>>, format |-> None, result |-> "none"]

\* Vulkan::for_surface, how it ends: Device::new, then the format or
\* Error::UnsupportedBGRA, then Swapchain::new.
for_surface_result(formats, failing) ==
    IF failing = "device" THEN "device_error"
    ELSE IF find_format(formats) = None THEN "UnsupportedBGRA"
    ELSE IF failing = "swapchain" THEN "swapchain_error"
    ELSE "ok"

\* The images the device gives a swapchain, and their indices.
ImageCount == MaxImages
ImageIndices == 0..(ImageCount - 1)

\* The images of the swapchain built as the n-th of a surface, and the
\* views ImageView::new_default makes of a list of images.
images_of(n) ==
    [i \in ImageIndices |-> [swapchain |-> n, index |-> i]]
views_of(images) == [i \in DOMAIN images |-> [image |-> images[i]]]

\* Vulkan::for_surface: the swapchain is built at the physical size.
for_surface(size) ==
    [extent |-> physical_size(size),
     swapchain |-> 0,
     images |-> images_of(0),
     image_views |-> views_of(images_of(0)),
     recreate_swapchain |-> FALSE,
     previous_frame_end |-> "now"]

\* The extent recreate_swapchain asks for, were the scale factor forgotten.
recreate_extent_logical(size) == logical_size(size)

\* The extent recreate_swapchain asks for.
recreate_extent(size) == physical_size(size)

\* recreate_swapchain, were the flag cleared and the old swapchain kept
recreate_swapchain_kept(vs, size, answer) ==
    IF answer = "ok" THEN [vs EXCEPT !.recreate_swapchain = FALSE] ELSE vs

\* recreate_swapchain, were the views of the new images stored one by one
\* as they are made: a view that fails leaves those made before it
recreate_swapchain_views_in_place(vs, size, answer) ==
    IF answer = "ok"
    THEN [vs EXCEPT !.extent = recreate_extent(size),
                    !.swapchain = @ + 1,
                    !.images = images_of(vs.swapchain + 1),
                    !.image_views = views_of(images_of(vs.swapchain + 1)),
                    !.recreate_swapchain = FALSE]
    ELSE IF answer = "views_err"
    THEN [vs EXCEPT !.image_views =
            [i \in DOMAIN @ |->
                IF i = 0 THEN [image |-> images_of(vs.swapchain + 1)[i]]
                ELSE @[i]]]
    ELSE vs

\* VulkanSurface::recreate_swapchain: on an error, of swapchain.recreate
\* ("err") or of ImageView::new_default ("views_err"), nothing is assigned.
recreate_swapchain(vs, size, answer) ==
    IF answer = "ok"
    THEN [vs EXCEPT !.extent = recreate_extent(size),
                    !.swapchain = @ + 1,
                    !.images = images_of(vs.swapchain + 1),
                    !.image_views = views_of(images_of(vs.swapchain + 1)),
                    !.recreate_swapchain = FALSE]
    ELSE vs

\* The record of one render call: whether the geometry was dirty when it
\* began, what the compositor had sent by then (changes, logical, factor),
\* how the call before it went (prev), the answers of the
\* device it reached ("none": not reached) and what it did.
NoPrev ==
    [dirty |-> FALSE, acquire |-> "none", present |-> "none", result |-> "none"]

NoFrame ==
    [id |-> 0, dirty |-> FALSE, changes |-> 0, logical |-> Unset,
     factor |-> None, prev |-> NoPrev,
     handler_calls |-> 0, recreations |-> 0,
     recreate |-> "none", recreate_extent |-> Unset,
     acquire |-> "none", skia |-> "none", present |-> "none",
     drew |-> FALSE, draw_size |-> Unset, canvas_scale |-> 0,
     target_extent |-> Unset, submitted |-> FALSE, presented |-> FALSE,
     result |-> "none"]

\* The tail of render, were out-of-date at present returned as an error.
render_frame_out_of_date_fails(vs, size, dev, f) ==
    LET vs1 == IF dev.acquire = "suboptimal"
               THEN [vs EXCEPT !.recreate_swapchain = TRUE] ELSE vs
    IN  IF dev.skia = "err"
        THEN [vs |-> vs1, frame |-> [f EXCEPT !.skia = "err", !.result = "err"]]
        ELSE
        LET f1 == [f EXCEPT !.skia = "ok", !.drew = TRUE,
                            !.draw_size = physical_size(size),
                            !.canvas_scale = scale_canvas(size),
                            !.target_extent = vs1.extent,
                            !.submitted = TRUE,
                            !.present = dev.present]
        IN  IF dev.present = "ok"
            THEN [vs |-> [vs1 EXCEPT !.previous_frame_end = "future"],
                  frame |-> [f1 EXCEPT !.presented = TRUE, !.result = "ok"]]
            ELSE [vs |-> [vs1 EXCEPT !.previous_frame_end = "now"],
                  frame |-> [f1 EXCEPT !.result = "err"]]

\* The tail of render, were every failure to present swallowed.
render_frame_present_errors_swallowed(vs, size, dev, f) ==
    LET vs1 == IF dev.acquire = "suboptimal"
               THEN [vs EXCEPT !.recreate_swapchain = TRUE] ELSE vs
    IN  IF dev.skia = "err"
        THEN [vs |-> vs1, frame |-> [f EXCEPT !.skia = "err", !.result = "err"]]
        ELSE
        LET f1 == [f EXCEPT !.skia = "ok", !.drew = TRUE,
                            !.draw_size = physical_size(size),
                            !.canvas_scale = scale_canvas(size),
                            !.target_extent = vs1.extent,
                            !.submitted = TRUE,
                            !.present = dev.present]
        IN  IF dev.present = "ok"
            THEN [vs |-> [vs1 EXCEPT !.previous_frame_end = "future"],
                  frame |-> [f1 EXCEPT !.presented = TRUE, !.result = "ok"]]
            ELSE [vs |-> [vs1 EXCEPT !.recreate_swapchain = TRUE,
                                     !.previous_frame_end = "now"],
                  frame |-> [f1 EXCEPT !.result = "ok"]]

\* The tail of render, were the future taken from previous_frame_end not
\* replaced when the present fails.
render_frame_future_not_restored(vs, size, dev, f) ==
    LET vs1 == IF dev.acquire = "suboptimal"
               THEN [vs EXCEPT !.recreate_swapchain = TRUE] ELSE vs
    IN  IF dev.skia = "err"
        THEN [vs |-> vs1, frame |-> [f EXCEPT !.skia = "err", !.result = "err"]]
        ELSE
        LET f1 == [f EXCEPT !.skia = "ok", !.drew = TRUE,
                            !.draw_size = physical_size(size),
                            !.canvas_scale = scale_canvas(size),
                            !.target_extent = vs1.extent,
                            !.submitted = TRUE,
                            !.present = dev.present]
        IN  CASE dev.present = "ok" ->
                   [vs |-> [vs1 EXCEPT !.previous_frame_end = "future"],
                    frame |-> [f1 EXCEPT !.presented = TRUE, !.result = "ok"]]
              [] dev.present = "out_of_date" ->
                   [vs |-> [vs1 EXCEPT !.recreate_swapchain = TRUE,
                                       !.previous_frame_end = "now"],
                    frame |-> [f1 EXCEPT !.result = "ok"]]
              [] OTHER ->
                   [vs |-> [vs1 EXCEPT !.previous_frame_end = "taken"],
                    frame |-> [f1 EXCEPT !.result = "err"]]

\* The tail of render, from the acquired image on (lines 275-331).
render_frame(vs, size, dev, f) ==
    LET vs1 == IF dev.acquire = "suboptimal"
               THEN [vs EXCEPT !.recreate_swapchain = TRUE] ELSE vs
    IN  IF dev.skia = "err"
        THEN [vs |-> vs1, frame |-> [f EXCEPT !.skia = "err", !.result = "err"]]
        ELSE
        LET f1 == [f EXCEPT !.skia = "ok", !.drew = TRUE,
                            !.draw_size = physical_size(size),
                            !.canvas_scale = scale_canvas(size),
                            !.target_extent = vs1.extent,
                            !.submitted = TRUE,
                            !.present = dev.present]
        IN  CASE dev.present = "ok" ->
                   [vs |-> [vs1 EXCEPT !.previous_frame_end = "future"],
                    frame |-> [f1 EXCEPT !.presented = TRUE, !.result = "ok"]]
              [] dev.present = "out_of_date" ->
                   [vs |-> [vs1 EXCEPT !.recreate_swapchain = TRUE,
                                       !.previous_frame_end = "now"],
                    frame |-> [f1 EXCEPT !.result = "ok"]]
              [] OTHER ->
                   [vs |-> [vs1 EXCEPT !.previous_frame_end = "now"],
                    frame |-> [f1 EXCEPT !.result = "err"]]

\* The acquire step treated as if out-of-date were a usable image.
render_acquire_ignoring_out_of_date(vs, size, dev, f) ==
    IF dev.acquire = "err"
    THEN [vs |-> vs, frame |-> [f EXCEPT !.acquire = "err", !.result = "err"]]
    ELSE render_frame(vs, size, dev, [f EXCEPT !.acquire = dev.acquire])

\* The acquire step with suboptimal handled like out-of-date.
render_acquire_suboptimal_aborts(vs, size, dev, f) ==
    CASE dev.acquire \in {"out_of_date", "suboptimal"} ->
           [vs |-> [vs EXCEPT !.recreate_swapchain = TRUE],
            frame |-> [f EXCEPT !.acquire = dev.acquire, !.result = "ok"]]
      [] dev.acquire = "err" ->
           [vs |-> vs, frame |-> [f EXCEPT !.acquire = "err", !.result = "err"]]
      [] OTHER ->
           render_frame(vs, size, dev, [f EXCEPT !.acquire = dev.acquire])

\* acquire_next_image and its match (lines 263-273)
render_acquire(vs, size, dev, f) ==
    CASE dev.acquire = "out_of_date" ->
           [vs |-> [vs EXCEPT !.recreate_swapchain = TRUE],
            frame |-> [f EXCEPT !.acquire = "out_of_date", !.result = "ok"]]
      [] dev.acquire = "err" ->
           [vs |-> vs, frame |-> [f EXCEPT !.acquire = "err", !.result = "err"]]
      [] OTHER ->
           render_frame(vs, size, dev, [f EXCEPT !.acquire = dev.acquire])

\* render, were it to return right after it recreated the swapchain.
VulkanSurface_render_returns_after_recreate(vs, size, dev, f) ==
    LET calls == 1
        vs1 == [vs EXCEPT !.recreate_swapchain = TRUE]
        vs2 == recreate_swapchain(vs1, size, dev.recreate)
        f2 == [f EXCEPT !.handler_calls = calls,
                        !.recreations = 1,
                        !.recreate = dev.recreate,
                        !.recreate_extent = recreate_extent(size)]
    IN  [vs |-> vs2,
         frame |-> [f2 EXCEPT !.result = IF dev.recreate = "ok" THEN "ok"
                                         ELSE "err"]]

\* VulkanSurface::render: the surface afterwards and what the call did.
VulkanSurface_render(vs, size, dev, f) ==
    LET calls == handler_calls(size)
        vs1 == IF calls > 0 THEN [vs EXCEPT !.recreate_swapchain = TRUE] ELSE vs
        f1 == [f EXCEPT !.handler_calls = calls]
    IN  IF vs1.recreate_swapchain
        THEN LET vs2 == recreate_swapchain(vs1, size, dev.recreate)
                 f2 == [f1 EXCEPT !.recreations = 1,
                                  !.recreate = dev.recreate,
                                  !.recreate_extent = recreate_extent(size)]
             IN  IF dev.recreate = "ok"
                 THEN render_acquire(vs2, size, dev, f2)
                 ELSE [vs |-> vs2, frame |-> [f2 EXCEPT !.result = "err"]]
        ELSE render_acquire(vs1, size, dev, f1)

(***************************************************************************)
(* AvyClient (app.rs): registration, geometry events, rendering            *)
(***************************************************************************)
Registered == DOMAIN surfaces
Attached == DOMAIN surface_backends

\* surfaces.insert(id, ...): an existing entry is replaced
insert(map, k, v) == [x \in (DOMAIN map) \cup {k} |-> IF x = k THEN v ELSE map[x]]

\* One geometry event the compositor sends for a surface.
GeometryEvents ==
    [kind : {"configure"}, new_size : LogicalSizes]
        \cup [kind : {"scale"}, factor : ScaleNumerators]

dispatch_geometry(surface, ev) ==
    IF ev.kind = "configure"
    THEN configure(surface, ev.new_size)
    ELSE scale_factor_changed(surface, ev.factor)

\* What the compositor has sent, after one more geometry event.
sent_event(s, ev) ==
    IF ev.kind = "configure"
    THEN [s EXCEPT !.count = @ + 1, !.logical = ev.new_size]
    ELSE [s EXCEPT !.count = @ + 1, !.factor = Some(ev.factor)]

RECURSIVE sent_events(_, _)
sent_events(s, evs) ==
    IF evs = <<>> THEN s ELSE sent_events(sent_event(s, Head(evs)), Tail(evs))

\* event_queue.roundtrip: the pending events of surface id are dispatched
\* in order; a handler that does not find the surface in the map panics.
RECURSIVE roundtrip(_, _, _)
roundtrip(map, id, evs) ==
    IF evs = <<>> THEN [surfaces |-> map, aborted |-> FALSE]
    ELSE IF id \notin DOMAIN map THEN [surfaces |-> map, aborted |-> TRUE]
    ELSE roundtrip([map EXCEPT ![id] = dispatch_geometry(@, Head(evs))],
                   id, Tail(evs))

\* register_surface, were the round-trip made before the insertion
register_surface_roundtrip_first(map, id, surface, evs) ==
    LET r == roundtrip(map, id, evs)
    IN  [surfaces |-> insert(r.surfaces, id, commit(surface)),
         aborted |-> r.aborted]

\* AvyClient::register_surface: insert, commit, round-trip
register_surface(map, id, surface, evs) ==
    roundtrip([insert(map, id, surface) EXCEPT ![id] = commit(@)], id, evs)

\* The event sequences a roundtrip may dispatch: at most one configure,
\* followed by at most one preferred scale.
RoundtripEvents ==
    {<<>>}
      \cup {<<e>> : e \in GeometryEvents}
      \cup {<<c, s>> : c \in [kind : {"configure"}, new_size : LogicalSizes],
                       s \in [kind : {"scale"}, factor : ScaleNumerators]}

\* The run is bounded: it ends with its last render call, and at most
\* MaxPending geometry events are handled between two render calls.
MoreEvents == stats.renders < MaxRenders /\ sent.count < MaxPending

\* AvyLayer::build / AvyClient::register_surface, for a new identity
RegisterSurface(id, logical, evs) ==
    /\ program = "lib" /\ ~aborted
    /\ id \notin Registered
    /\ LET r == register_surface(surfaces, id, AvyLayer_new(Size_new(logical)),
                                 evs)
       IN  surfaces' = r.surfaces /\ aborted' = r.aborted
    /\ sent' = sent_events([count |-> 0, logical |-> logical, factor |-> None], evs)
    /\ UNCHANGED <<binvars, seat, attach, reading, program, active_touches,
                   surface_backends, keyboard_focus,
                   log, frame, stats>>

\* AvyClient::register_surface with a surface whose identity the registry
\* holds already (and that has no backend yet)
RegisterAgain(id, logical, evs) ==
    /\ program = "lib" /\ ~aborted
    /\ id \in Registered /\ id \notin Attached
    /\ LET r == register_surface(surfaces, id, AvyLayer_new(Size_new(logical)),
                                 evs)
       IN  surfaces' = r.surfaces /\ aborted' = r.aborted
    /\ sent' = sent_events([count |-> 0, logical |-> logical, factor |-> None], evs)
    /\ UNCHANGED <<binvars, seat, attach, reading, program, active_touches,
                   surface_backends, keyboard_focus,
                   log, frame, stats>>

\* RegisteredSurface::make_backend
\* make_backend, were the backend inserted whatever for_surface returned
make_backend_inserting_always(map, id, result, backend) ==
    insert(map, id, backend)

\* RegisteredSurface::make_backend: for_surface(..)? returns the error
\* before the insertion into surface_backends
make_backend(map, id, result, backend) ==
    IF result = "ok" THEN insert(map, id, backend) ELSE map

MakeBackend(id, formats, failing) ==
    /\ program = "lib" /\ ~aborted
    /\ id \in Registered /\ id \notin Attached
    /\ LET result == for_surface_result(formats, failing)
       IN  /\ attach' = [program |-> "lib", formats |-> formats,
                         format |-> IF result = "ok" THEN find_format(formats)
                                    ELSE None,
                         result |-> result]
           /\ surface_backends' =
                 make_backend(surface_backends, id, result,
                              for_surface(surfaces[id].size))
           /\ stats' = [stats EXCEPT
                           !.builds = @ + (IF result = "ok" THEN 1 ELSE 0)]
    /\ UNCHANGED <<binvars, seat, reading, program, active_touches,
                   surfaces, keyboard_focus, aborted, log,
                   frame, sent>>

\* The lock on a surface's size (Arc<RwLock<Size>>): the render call that
\* holds the read guard (holder, 0: none), the number of its next read of
\* the size (pc), the size when the guard was taken, the values the call
\* has read from the size, and the geometry event whose handler waits in
\* size_mut() for the write guard.
NoReading ==
    [holder |-> 0, pc |-> 0, at_lock |-> Unset, seen |-> <<>>,
     waiting |-> None]

\* size_mut(), had the size no lock
size_mut_unguarded(r, id) == TRUE

\* size_mut(), were the handler to call it with a read guard of its own
\* still alive: the write lock is never granted
size_mut_holding_size_ref(r, id) == FALSE

\* size_mut() = size().write().unwrap(): returns once no read guard is held
size_mut_granted(r, id) == r.holder # id

\* The handler that runs next on the event thread: the one that waits, if
\* one does.
next_handler(r, ev) == r.waiting = None \/ r.waiting = Some(ev)

\* LayerShellHandler::configure
Configure(id, new_size) ==
    /\ program = "lib" /\ ~aborted
    /\ id \in Registered /\ MoreEvents
    /\ size_mut_granted(reading, id)
    /\ next_handler(reading, [kind |-> "configure", new_size |-> new_size])
    /\ reading' = [reading EXCEPT !.waiting = None]
    /\ surfaces' = configure_surface(surfaces, id, new_size)
    /\ sent' = sent_event(sent, [kind |-> "configure", new_size |-> new_size])
    /\ UNCHANGED <<binvars, seat, attach, program, active_touches,
                   surface_backends, keyboard_focus, aborted,
                   log, frame, stats>>

\* FractionalScaleHandler::scale_factor_changed
ScaleFactorChanged(id, factor) ==
    /\ program = "lib" /\ ~aborted
    /\ id \in Registered /\ MoreEvents
    /\ size_mut_granted(reading, id)
    /\ next_handler(reading, [kind |-> "scale", factor |-> factor])
    /\ reading' = [reading EXCEPT !.waiting = None]
    /\ surfaces' = rescale_surface(surfaces, id, factor)
    /\ sent' = sent_event(sent, [kind |-> "scale", factor |-> factor])
    /\ UNCHANGED <<binvars, seat, attach, program, active_touches,
                   surface_backends, keyboard_focus, aborted,
                   log, frame, stats>>

\* closed, were it to drop the record of the closed surface
closed_dropping_record(map, id) == [k \in (DOMAIN map) \ {id} |-> map[k]]

\* LayerShellHandler::closed, what it leaves of the registry: its body is
\* empty.
closed(map, id) == map

\* LayerShellHandler::closed
Closed(id) ==
    /\ program = "lib" /\ ~aborted
    /\ id \in Registered
    /\ Len(log) < MaxEvents
    /\ surfaces' = closed(surfaces, id)
    /\ log' = Append(log, [event |-> "closed", surface |-> id,
                           focus |-> keyboard_focus, to |-> {}])
    /\ UNCHANGED <<binvars, seat, attach, reading, program, active_touches,
                   surface_backends, keyboard_focus, aborted,
                   frame, stats, sent>>

\* AvySurfaceHandle::render, what the call does under the lock of the
\* backend and the read guard of the size
render_call(id, dev) ==
    /\ program = "lib" /\ ~aborted
    /\ id \in Attached
    /\ stats.renders < MaxRenders
    /\ \E size \in {surfaces[id].size} :
       \E r \in {VulkanSurface_render(surface_backends[id], size, dev,
                    [NoFrame EXCEPT
                        !.id = id,
                        !.dirty = size.has_changed,
                        !.changes = sent.count,
                        !.logical = sent.logical,
                        !.factor = sent.factor,
                        !.prev = [dirty |-> frame.dirty,
                                  acquire |-> frame.acquire,
                                  present |-> frame.present,
                                  result |-> frame.result]])} :
           /\ surface_backends' = [surface_backends EXCEPT ![id] = r.vs]
           /\ surfaces' = [surfaces EXCEPT ![id].size = handle_changes(size)]
           /\ frame' = r.frame
           /\ stats' = [stats EXCEPT
                  !.renders = @ + 1,
                  !.builds = @ + (IF r.frame.recreate = "ok" THEN 1 ELSE 0),
                  !.presents = @ + (IF r.frame.presented THEN 1 ELSE 0)]
    /\ sent' = [sent EXCEPT !.count = 0]
    /\ UNCHANGED <<binvars, seat, attach, program, active_touches,
                   keyboard_focus, aborted, log>>

\* AvySurfaceHandle::render, the whole call in one step: the read guard is
\* taken and dropped within it.
Render(id, dev) ==
    /\ reading.holder = 0
    /\ render_call(id, dev)
    /\ UNCHANGED reading

\* The reads of the size one render call makes: recreate_swapchain, then
\* skia_surface if an image was acquired, then scale_canvas if the Skia
\* surface was made.
reads(dev) == IF dev.skia = "none" THEN 1 ELSE IF dev.skia = "err" THEN 2 ELSE 3

\* What the k-th read takes from the size: the physical size (the extent
\* of the recreation, the size of the render target), then the canvas scale.
read_value(size, k) ==
    IF k = 3 THEN scale_canvas(size) ELSE physical_size(size)

\* AvySurfaceHandle::render step by step, beside the event thread:
\* self.size.read() takes the read guard,
RenderLock(id) ==
    /\ program = "lib" /\ ~aborted
    /\ id \in Attached
    /\ stats.renders < MaxRenders
    /\ reading.holder = 0
    /\ reading' = [reading EXCEPT !.holder = id, !.pc = 1,
                                  !.at_lock = surfaces[id].size,
                                  !.seen = <<>>]
    /\ UNCHANGED <<binvars, seat, attach, program, active_touches, surfaces,
                   surface_backends, keyboard_focus, aborted, log,
                   frame, stats, sent>>

\* VulkanSurface::render reads the size through the guard,
RenderRead(id) ==
    /\ program = "lib" /\ ~aborted
    /\ reading.holder = id /\ reading.pc \in 1..3
    /\ reading' = [reading EXCEPT
                      !.seen = Append(@, read_value(surfaces[id].size,
                                                    reading.pc)),
                      !.pc = @ + 1]
    /\ UNCHANGED <<binvars, seat, attach, program, active_touches, surfaces,
                   surface_backends, keyboard_focus, aborted, log,
                   frame, stats, sent>>

\* and the call returns after the reads its device answers lead to: the
\* guard is dropped.
RenderUnlock(id, dev) ==
    /\ reading.holder = id /\ reading.pc = reads(dev) + 1
    /\ render_call(id, dev)
    /\ reading' = [NoReading EXCEPT !.waiting = reading.waiting]

\* A geometry event arrives while a render call holds the read guard: its
\* handler waits in size_mut().
SizeMutWait(id, ev) ==
    /\ program = "lib" /\ ~aborted
    /\ id \in Registered /\ MoreEvents
    /\ reading.holder = id /\ reading.waiting = None
    /\ reading' = [reading EXCEPT !.waiting = Some(ev)]
    /\ UNCHANGED <<binvars, seat, attach, program, active_touches, surfaces,
                   surface_backends, keyboard_focus, aborted, log,
                   frame, stats, sent>>

(***************************************************************************)
(* AvyClient (app.rs): SeatHandler                                         *)
(***************************************************************************)
Capabilities == {"Pointer", "Keyboard", "Touch"}

\* AvyClient::new: pointer, relative_pointer, keyboard and touch are None.
\* Each field says whether the Option holds an object; made counts the
\* objects got from the seat (get_pointer, get_keyboard, get_touch); caps
\* are the capabilities the seat has, events the seat events handled so far.
NoSeat ==
    [pointer |-> FALSE, relative_pointer |-> FALSE, keyboard |-> FALSE,
     touch |-> FALSE, made |-> [c \in Capabilities |-> 0],
     caps |-> {}, events |-> 0]

\* SeatHandler::new_capability.  The wl_pointer made for Pointer is a local
\* that is stored nowhere; only the relative pointer made from it is kept,
\* if the compositor provides one (rel).
new_capability(s, capability, rel) ==
    LET s1 == IF capability = "Pointer" /\ ~s.pointer
              THEN [s EXCEPT !.made["Pointer"] = @ + 1,
                             !.relative_pointer = @ \/ rel]
              ELSE s
        s2 == IF capability = "Keyboard" /\ ~s1.keyboard
              THEN [s1 EXCEPT !.made["Keyboard"] = @ + 1, !.keyboard = TRUE]
              ELSE s1
    IN  IF capability = "Touch"
        THEN [s2 EXCEPT !.made["Touch"] = @ + 1, !.touch = TRUE]
        ELSE s2

\* SeatHandler::remove_capability
remove_capability(s, capability) ==
    LET s1 == IF capability = "Keyboard"
              THEN [s EXCEPT !.keyboard = FALSE] ELSE s
        s2 == IF capability = "Pointer"
              THEN [s1 EXCEPT !.pointer = FALSE, !.relative_pointer = FALSE]
              ELSE s1
    IN  IF capability = "Touch" THEN [s2 EXCEPT !.touch = FALSE] ELSE s2

\* SeatHandler::remove_seat: keyboard, pointer and relative_pointer are
\* taken
remove_seat(s) ==
    [s EXCEPT !.keyboard = FALSE, !.pointer = FALSE,
              !.relative_pointer = FALSE]

\* The seat gains a capability it did not have.
NewCapability(capability, rel) ==
    /\ program = "lib" /\ ~aborted
    /\ seat.events < MaxEvents
    /\ capability \notin seat.caps
    /\ seat' = [new_capability(seat, capability, rel) EXCEPT
                    !.caps = @ \cup {capability}, !.events = @ + 1]
    /\ UNCHANGED <<libvars, binvars, attach, reading, program>>

\* The seat loses a capability it had.
RemoveCapability(capability) ==
    /\ program = "lib" /\ ~aborted
    /\ seat.events < MaxEvents
    /\ capability \in seat.caps
    /\ seat' = [remove_capability(seat, capability) EXCEPT
                    !.caps = @ \ {capability}, !.events = @ + 1]
    /\ UNCHANGED <<libvars, binvars, attach, reading, program>>

\* The seat is removed, and its capabilities with it.
RemoveSeat ==
    /\ program = "lib" /\ ~aborted
    /\ seat.events < MaxEvents
    /\ seat' = [remove_seat(seat) EXCEPT !.caps = {}, !.events = @ + 1]
    /\ UNCHANGED <<libvars, binvars, attach, reading, program>>

(***************************************************************************)
(* AvyClient (app.rs): KeyboardHandler                                     *)
(***************************************************************************)
KeyEvents == {"press_key", "release_key", "update_modifiers"}

\* One handled seat event: its kind, the surface it names (0: none), the
\* keyboard focus when it arrived and the surfaces whose handler it invoked.
LogEntry(event, surface, to) ==
    [event |-> event, surface |-> surface, focus |-> keyboard_focus, to |-> to]

\* enter: self.keyboard_focus.replace(surface.id())
enter_focus(focus, surface) == Some(surface)

\* leave, had it left the focus alone
leave_focus_kept(focus, surface) == focus

\* leave: self.keyboard_focus.take()
leave_focus(focus, surface) == None

\* press_key, release_key, update_modifiers: if let Some(focus) = ...
key_target(focus) == IF focus = None THEN {} ELSE {unwrap(focus)}

MoreSeatEvents == Len(log) < MaxEvents

\* KeyboardHandler::enter: the focus is replaced, then the surface looked up.
Enter(surface) ==
    /\ program = "lib" /\ ~aborted /\ MoreSeatEvents
    /\ keyboard_focus' = enter_focus(keyboard_focus, surface)
    /\ IF surface \in Registered
       THEN /\ log' = Append(log, LogEntry("enter", surface, {surface}))
            /\ UNCHANGED aborted
       ELSE /\ log' = Append(log, LogEntry("enter", surface, {}))
            /\ aborted' = TRUE
    /\ UNCHANGED <<binvars, seat, attach, reading, program, active_touches,
                   surfaces, surface_backends, frame, stats, sent>>

\* KeyboardHandler::leave: the surface is looked up and told, then the focus
\* taken.
Leave(surface) ==
    /\ program = "lib" /\ ~aborted /\ MoreSeatEvents
    /\ IF surface \in Registered
       THEN /\ log' = Append(log, LogEntry("leave", surface, {surface}))
            /\ keyboard_focus' = leave_focus(keyboard_focus, surface)
            /\ UNCHANGED aborted
       ELSE /\ log' = Append(log, LogEntry("leave", surface, {}))
            /\ aborted' = TRUE
            /\ UNCHANGED keyboard_focus
    /\ UNCHANGED <<binvars, seat, attach, reading, program, active_touches,
                   surfaces, surface_backends, frame, stats, sent>>

\* press_key, release_key and update_modifiers have one body.
key_event(event) ==
    /\ program = "lib" /\ ~aborted /\ MoreSeatEvents
    /\ IF key_target(keyboard_focus) \subseteq Registered
       THEN /\ log' = Append(log, LogEntry(event, 0, key_target(keyboard_focus)))
            /\ UNCHANGED aborted
       ELSE /\ log' = Append(log, LogEntry(event, 0, {}))
            /\ aborted' = TRUE
    /\ UNCHANGED <<binvars, seat, attach, reading, program, active_touches,
                   surfaces, surface_backends, keyboard_focus,
                   frame, stats, sent>>

PressKey == key_event("press_key")
ReleaseKey == key_event("release_key")
UpdateModifiers == key_event("update_modifiers")

(***************************************************************************)
(* AvyClient (app.rs): TouchHandler                                        *)
(***************************************************************************)
TouchIds == 1..MaxTouches
TouchEvents == {"up", "motion", "shape", "orientation"}

\* The values of a map.
values(map) == {map[k] : k \in DOMAIN map}

\* One handled touch event: its kind, the surface and the id it carries
\* (0: none), the focus and the active touches when it arrived, and the
\* surfaces whose handler it invoked.
TouchEntry(event, surface, id, to) ==
    [event |-> event, surface |-> surface, id |-> id,
     focus |-> keyboard_focus, touches |-> active_touches, to |-> to]

\* active_touches.insert(id, surface_id)
touch_insert(map, id, surface) == insert(map, id, surface)

\* active_touches.remove(&id), were it to clear the map
touch_remove_all(map, id) == Empty

\* active_touches.remove(&id)
touch_remove(map, id) == [k \in (DOMAIN map) \ {id} |-> map[k]]

\* the lookup of an id, were a missing id answered with some active touch
touch_get_or_any(map, id) ==
    IF id \in DOMAIN map THEN Some(map[id])
    ELSE IF DOMAIN map # {} THEN Some(CHOOSE s \in values(map) : TRUE)
    ELSE None

\* the lookup of an id, were it answered as cancel picks its surface
touch_get_first_value(map, id) ==
    IF id \in DOMAIN map THEN Some(CHOOSE s \in values(map) : TRUE) ELSE None

\* active_touches.get(&id) / the value remove(&id) returns
touch_get(map, id) == IF id \in DOMAIN map THEN Some(map[id]) ELSE None

\* TouchHandler::down: the surface is looked up and told, then the entry
\* inserted.
Down(surface, id) ==
    /\ program = "lib" /\ ~aborted /\ MoreSeatEvents
    /\ IF surface \in Registered
       THEN /\ log' = Append(log, TouchEntry("down", surface, id, {surface}))
            /\ active_touches' = touch_insert(active_touches, id, surface)
            /\ UNCHANGED aborted
       ELSE /\ log' = Append(log, TouchEntry("down", surface, id, {}))
            /\ aborted' = TRUE
            /\ UNCHANGED active_touches
    /\ UNCHANGED <<binvars, seat, attach, reading, program, surfaces, surface_backends,
                   keyboard_focus, frame, stats, sent>>

\* TouchHandler::up: the entry is removed, then its surface looked up and
\* told.
Up(id) ==
    /\ program = "lib" /\ ~aborted /\ MoreSeatEvents
    /\ IF touch_get(active_touches, id) = None
       THEN /\ log' = Append(log, TouchEntry("up", 0, id, {}))
            /\ aborted' = TRUE
            /\ UNCHANGED active_touches
       ELSE LET surface == unwrap(touch_get(active_touches, id))
            IN  /\ active_touches' = touch_remove(active_touches, id)
                /\ IF surface \in Registered
                   THEN /\ log' = Append(log, TouchEntry("up", 0, id, {surface}))
                        /\ UNCHANGED aborted
                   ELSE /\ log' = Append(log, TouchEntry("up", 0, id, {}))
                        /\ aborted' = TRUE
    /\ UNCHANGED <<binvars, seat, attach, reading, program, surfaces, surface_backends,
                   keyboard_focus, frame, stats, sent>>

\* motion, shape and orientation have one body: the owner of the id is
\* looked up in active_touches, then in surfaces, and told.
touch_event(event, id) ==
    /\ program = "lib" /\ ~aborted /\ MoreSeatEvents
    /\ IF touch_get(active_touches, id) = None
       THEN /\ log' = Append(log, TouchEntry(event, 0, id, {}))
            /\ aborted' = TRUE
       ELSE LET surface == unwrap(touch_get(active_touches, id))
            IN  IF surface \in Registered
                THEN /\ log' = Append(log, TouchEntry(event, 0, id, {surface}))
                     /\ UNCHANGED aborted
                ELSE /\ log' = Append(log, TouchEntry(event, 0, id, {}))
                     /\ aborted' = TRUE
    /\ UNCHANGED <<binvars, seat, attach, reading, program, active_touches, surfaces,
                   surface_backends, keyboard_focus, frame, stats, sent>>

Motion(id) == touch_event("motion", id)
Shape(id) == touch_event("shape", id)
Orientation(id) == touch_event("orientation", id)

\* TouchHandler::cancel: the first value of the map, whichever the map's
\* iteration yields, is told; then the map is cleared.  With no active
\* touch the unwrap panics.
Cancel ==
    /\ program = "lib" /\ ~aborted /\ MoreSeatEvents
    /\ IF DOMAIN active_touches = {}
       THEN /\ log' = Append(log, TouchEntry("cancel", 0, 0, {}))
            /\ aborted' = TRUE
            /\ UNCHANGED active_touches
       ELSE \E surface \in values(active_touches) :
               /\ active_touches' = Empty
               /\ IF surface \in Registered
                  THEN /\ log' = Append(log, TouchEntry("cancel", 0, 0, {surface}))
                       /\ UNCHANGED aborted
                  ELSE /\ log' = Append(log, TouchEntry("cancel", 0, 0, {}))
                       /\ aborted' = TRUE
    /\ UNCHANGED <<binvars, seat, attach, reading, program, surfaces, surface_backends,
                   keyboard_focus, frame, stats, sent>>

(***************************************************************************)
(* AvyClient (app.rs): PointerHandler                                      *)
(***************************************************************************)
\* The surfaces a pointer event may name: 0 is a surface that is never
\* registered.
PointerSurfaces == 0..MaxSurfaces

\* The events of one pointer frame, each given by the surface it names.
PointerFrames ==
    {<<a>> : a \in PointerSurfaces}
        \cup {<<a, b>> : a \in PointerSurfaces, b \in PointerSurfaces}

\* pointer_frame, were only the first event of a frame looked at
pointer_forwarded_first_only(events, registered) ==
    IF Head(events) \in registered THEN <<Head(events)>> ELSE <<>>

\* for event in events: if let Some(surface) = self.surfaces.get_mut(..):
\* the surfaces told, in order
pointer_forwarded(events, registered) ==
    SelectSeq(events, LAMBDA surface : surface \in registered)

\* One handled pointer frame: the surfaces its events name, the registry,
\* the focus and the active touches when it arrived, and the surfaces told.
PointerEntry(events, forwarded) ==
    [event |-> "pointer_frame", surface |-> 0, names |-> events,
     registered |-> Registered,
     focus |-> keyboard_focus, touches |-> active_touches,
     forwarded |-> forwarded,
     to |-> {forwarded[i] : i \in DOMAIN forwarded}]

MoreFrames ==
    Cardinality({i \in DOMAIN log : log[i].event = "pointer_frame"}) < MaxFrames

\* PointerHandler::pointer_frame
PointerFrame(events) ==
    /\ program = "lib" /\ ~aborted /\ MoreSeatEvents /\ MoreFrames
    /\ log' = Append(log, PointerEntry(events,
                                       pointer_forwarded(events, Registered)))
    /\ UNCHANGED <<binvars, seat, attach, reading, program, active_touches, surfaces,
                   surface_backends, keyboard_focus, aborted, frame, stats,
                   sent>>

(***************************************************************************)
(* The standalone engine (main.rs): SwapchainElement, AvySwapchain         *)
(***************************************************************************)
INIT_WIDTH == 1920
INIT_HEIGHT == 60

\* The sizes the compositor configures the bar with.
EngineSizes == {<<INIT_WIDTH, INIT_HEIGHT>>, <<INIT_WIDTH, 40>>}

\* The one call of a fill_frame call that fails with an error other than
\* out-of-date and suboptimal ("none": no call fails; the first failure
\* returns), and what acquire and present report when they do not fail.
FailingCalls ==
    {"none", "idle", "build", "wait", "acquire", "wait_last", "reset",
     "record", "submit", "present"}
Staleness == {"ok", "suboptimal", "out_of_date"}
EngineAnswers ==
    [fails : FailingCalls, acquire : Staleness, image : ImageIndices,
     present : Staleness]

\* SwapchainElement::new: the fence is created signaled, last_fence is null.
\* in_flight is the fence (the element that owns it) given to the submission
\* of the element's command buffer that is not yet known to have completed.
SwapchainElement_new ==
    [fence |-> "signaled", last_fence |-> None, in_flight |-> None]

\* AvySwapchain::new
AvySwapchain_new(size) ==
    [live |-> TRUE, size |-> size, current_frame |-> 0,
     elements |-> [i \in ImageIndices |-> SwapchainElement_new]]

\* device_wait_idle: every submission has completed.
device_wait_idle(sc) ==
    [sc EXCEPT !.elements =
        [i \in DOMAIN @ |->
            [@[i] EXCEPT !.fence = IF @ = "pending" THEN "signaled" ELSE @,
                         !.in_flight = None]]]

\* Work the GPU may still be at: a fence given to a submission and not
\* waited for since, or a command buffer in flight.
busy(sc) ==
    \E i \in DOMAIN sc.elements :
        sc.elements[i].fence = "pending" \/ sc.elements[i].in_flight # None

\* AvySwapchain::destroy: every element, then the render pass, then the
\* swapchain.
destroy == <<"elements", "render_pass", "swapchain">>

\* recreate, were the device not waited for
recreate_without_idle(sc, ans) ==
    IF ans.fails = "build"
    THEN [ok |-> FALSE, sc |-> [sc EXCEPT !.live = FALSE],
          trace |-> destroy,
          busy_before |-> busy(sc), released_busy |-> busy(sc)]
    ELSE [ok |-> TRUE, sc |-> AvySwapchain_new(sc.size),
          trace |-> destroy \o <<"build">>,
          busy_before |-> busy(sc), released_busy |-> busy(sc)]

\* recreate, were the swapchain replaced and the elements and the cursor
\* kept
recreate_keeping_elements(sc, ans) ==
    IF ans.fails = "idle"
    THEN [ok |-> FALSE, sc |-> sc, trace |-> <<>>,
          busy_before |-> busy(sc), released_busy |-> FALSE]
    ELSE IF ans.fails = "build"
    THEN [ok |-> FALSE, sc |-> [device_wait_idle(sc) EXCEPT !.live = FALSE],
          trace |-> <<"idle">> \o destroy,
          busy_before |-> busy(sc),
          released_busy |-> busy(device_wait_idle(sc))]
    ELSE [ok |-> TRUE, sc |-> device_wait_idle(sc),
          trace |-> <<"idle">> \o destroy \o <<"build">>,
          busy_before |-> busy(sc),
          released_busy |-> busy(device_wait_idle(sc))]

\* AvySwapchain::recreate: wait for the device, destroy, build anew.  The
\* trace lists what it did in order; released_busy says whether the GPU
\* might still be at work when destroy began.
recreate(sc, ans) ==
    IF ans.fails = "idle"
    THEN [ok |-> FALSE, sc |-> sc, trace |-> <<>>,
          busy_before |-> busy(sc), released_busy |-> FALSE]
    ELSE IF ans.fails = "build"
    THEN [ok |-> FALSE, sc |-> [device_wait_idle(sc) EXCEPT !.live = FALSE],
          trace |-> <<"idle">> \o destroy,
          busy_before |-> busy(sc),
          released_busy |-> busy(device_wait_idle(sc))]
    ELSE [ok |-> TRUE, sc |-> AvySwapchain_new(sc.size),
          trace |-> <<"idle">> \o destroy \o <<"build">>,
          busy_before |-> busy(sc),
          released_busy |-> busy(device_wait_idle(sc))]

\* The record of one fill_frame call.
NoFill ==
    [changed |-> FALSE, failed |-> "none", acquire |-> "none",
     present |-> "none", recreations |-> 0, built |-> Unset,
     submitted |-> FALSE, presented |-> FALSE, advanced |-> FALSE,
     in_flight_at_acquire |-> FALSE, overlap |-> FALSE,
     trace |-> <<>>, busy_before |-> FALSE, released_busy |-> FALSE,
     geometry |-> Unset, extent |-> Unset,
     result |-> "none"]

\* The end of a fill_frame call that recreates the swapchain and breaks.
recreate_and_break(sc, ans, f) ==
    LET r == recreate(sc, ans)
    IN  [sc |-> r.sc,
         fill |-> [f EXCEPT !.recreations = 1,
                            !.trace = r.trace,
                            !.busy_before = r.busy_before,
                            !.released_busy = r.released_busy,
                            !.built = IF r.ok THEN r.sc.size ELSE Unset,
                            !.failed = IF r.ok THEN "none" ELSE ans.fails,
                            !.result = IF r.ok THEN "break" ELSE "err"]]

failure(sc, f, call) ==
    [sc |-> sc, fill |-> [f EXCEPT !.failed = call, !.result = "err"]]

\* wait_for_fences(fence of element i, u64::MAX): returns once the fence is
\* signaled; a fence that was reset and never submitted is never signaled.
fence_waited(sc, i) ==
    [sc EXCEPT !.elements =
        [j \in DOMAIN @ |->
            [@[j] EXCEPT !.fence = IF j = i THEN "signaled" ELSE @,
                         !.in_flight = IF @ = Some(i) THEN None ELSE @]]]
never_signaled(sc, i) == sc.elements[i].fence = "unsignaled"
hang(sc, f) == [sc |-> sc, fill |-> [f EXCEPT !.result = "hang"]]

\* fill_frame from queue_present on, were current_frame left where it is
fill_present_cursor_kept(sc, ans, f) ==
    IF ans.fails = "present" THEN failure(sc, f, "present")
    ELSE LET f1 == [f EXCEPT !.present = ans.present] IN
         CASE ans.present = "ok" ->
                [sc |-> sc,
                 fill |-> [f1 EXCEPT !.presented = TRUE, !.advanced = TRUE,
                                     !.result = "continue"]]
           [] ans.present = "suboptimal" ->
                recreate_and_break(sc, ans, [f1 EXCEPT !.presented = TRUE])
           [] OTHER ->
                recreate_and_break(sc, ans, f1)

\* fill_frame from queue_present on (lines 424-442)
fill_present(sc, ans, f) ==
    IF ans.fails = "present" THEN failure(sc, f, "present")
    ELSE LET f1 == [f EXCEPT !.present = ans.present] IN
         CASE ans.present = "ok" ->
                [sc |-> [sc EXCEPT !.current_frame =
                            (@ + 1) % Cardinality(DOMAIN sc.elements)],
                 fill |-> [f1 EXCEPT !.presented = TRUE, !.advanced = TRUE,
                                     !.result = "continue"]]
           [] ans.present = "suboptimal" ->
                recreate_and_break(sc, ans, [f1 EXCEPT !.presented = TRUE])
           [] OTHER ->
                recreate_and_break(sc, ans, f1)

\* fill_frame from begin_command_buffer to queue_submit, were the
\* submission given no fence
fill_submit_without_fence(sc, ans, f) ==
    IF ans.fails = "record" THEN failure(sc, f, "record")
    ELSE IF ans.fails = "submit" THEN failure(sc, f, "submit")
    ELSE fill_present(
            [sc EXCEPT !.elements[ans.image].in_flight =
                            Some(sc.current_frame)],
            ans,
            [f EXCEPT !.submitted = TRUE,
                      !.extent = sc.size,
                      !.overlap = sc.elements[ans.image].in_flight # None])

\* fill_frame from begin_command_buffer to queue_submit (lines 386-422)
fill_submit(sc, ans, f) ==
    IF ans.fails = "record" THEN failure(sc, f, "record")
    ELSE IF ans.fails = "submit" THEN failure(sc, f, "submit")
    ELSE fill_present(
            [sc EXCEPT !.elements[sc.current_frame].fence = "pending",
                       !.elements[ans.image].in_flight =
                            Some(sc.current_frame)],
            ans,
            [f EXCEPT !.submitted = TRUE,
                      !.extent = sc.size,
                      !.overlap = sc.elements[ans.image].in_flight # None])

\* next_element after the acquire, were the image's last_fence not waited
\* for
next_element_claim_unwaited(sc, ans, f) ==
    LET sc2 == [sc EXCEPT !.elements[ans.image].last_fence =
                              Some(sc.current_frame)]
        f1 == [f EXCEPT !.in_flight_at_acquire =
                            sc.elements[ans.image].in_flight # None]
    IN  IF ans.fails = "reset" THEN failure(sc2, f1, "reset")
        ELSE fill_submit(
                [sc2 EXCEPT !.elements[sc.current_frame].fence = "unsignaled"],
                ans, f1)

\* next_element after the acquire (lines 348-360)
next_element_claim(sc, ans, f) ==
    LET last == sc.elements[ans.image].last_fence
        wait_hangs == last # None /\ never_signaled(sc, unwrap(last))
        wait_fails == last # None /\ ans.fails = "wait_last"
        sc1 == IF last # None THEN fence_waited(sc, unwrap(last)) ELSE sc
        sc2 == [sc1 EXCEPT !.elements[ans.image].last_fence =
                               Some(sc.current_frame)]
        f1 == [f EXCEPT !.in_flight_at_acquire =
                            sc.elements[ans.image].in_flight # None]
    IN  IF wait_hangs THEN hang(sc, f1)
        ELSE IF wait_fails THEN failure(sc1, f1, "wait_last")
        ELSE IF ans.fails = "reset" THEN failure(sc2, f1, "reset")
        ELSE fill_submit(
                [sc2 EXCEPT !.elements[sc.current_frame].fence = "unsignaled"],
                ans, f1)

\* next_element, were an error of the acquire passed over and the frame
\* made all the same
next_element_acquire_error_ignored(sc, ans, f) ==
    IF never_signaled(sc, sc.current_frame) THEN hang(sc, f)
    ELSE IF ans.fails = "wait" THEN failure(sc, f, "wait")
    ELSE LET sc1 == fence_waited(sc, sc.current_frame) IN
         IF ans.fails = "acquire"
         THEN next_element_claim(sc1, [ans EXCEPT !.fails = "none"],
                                 [f EXCEPT !.failed = "acquire"])
         ELSE IF ans.acquire # "ok"
         THEN recreate_and_break(sc1, ans, [f EXCEPT !.acquire = ans.acquire])
         ELSE next_element_claim(sc1, ans, [f EXCEPT !.acquire = "ok"])

\* AvySwapchain::next_element and the rest of fill_frame
next_element(sc, ans, f) ==
    IF never_signaled(sc, sc.current_frame) THEN hang(sc, f)
    ELSE IF ans.fails = "wait" THEN failure(sc, f, "wait")
    ELSE LET sc1 == fence_waited(sc, sc.current_frame) IN
         IF ans.fails = "acquire" THEN failure(sc1, f, "acquire")
         ELSE IF ans.acquire # "ok"
         THEN recreate_and_break(sc1, ans, [f EXCEPT !.acquire = ans.acquire])
         ELSE next_element_claim(sc1, ans, [f EXCEPT !.acquire = "ok"])

\* fill_frame, were the new size not stored before the recreation
fill_frame_size_not_stored(sc, ap, ans) ==
    IF ap.changed_size
    THEN LET r == recreate_and_break(sc, ans,
                                     [NoFill EXCEPT !.changed = TRUE,
                                                    !.geometry = ap.size])
         IN  [sc |-> r.sc, app |-> [ap EXCEPT !.changed_size = FALSE],
              fill |-> r.fill]
    ELSE LET r == next_element(sc, ans, [NoFill EXCEPT !.geometry = ap.size])
         IN  [sc |-> r.sc, app |-> ap, fill |-> r.fill]

\* AvySwapchain::fill_frame: the swapchain, the app and the call's record
fill_frame(sc, ap, ans) ==
    IF ap.changed_size
    THEN LET r == recreate_and_break([sc EXCEPT !.size = ap.size], ans,
                                     [NoFill EXCEPT !.changed = TRUE,
                                                    !.geometry = ap.size])
         IN  [sc |-> r.sc, app |-> [ap EXCEPT !.changed_size = FALSE],
              fill |-> r.fill]
    ELSE LET r == next_element(sc, ans, [NoFill EXCEPT !.geometry = ap.size])
         IN  [sc |-> r.sc, app |-> ap, fill |-> r.fill]

\* The configure handler of the engine's App: the new size is kept and
\* flagged for the next frame.
AppConfigure(new_size) ==
    /\ program = "bin"
    /\ fill.result \notin {"err", "hang", "exit"}
    /\ app' = [size |-> new_size, changed_size |-> TRUE]
    /\ UNCHANGED <<libvars, seat, attach, reading, program, swapchain, fill>>

\* One turn of main's loop: fill_frame; an error ends the program.
FillFrame(ans) ==
    /\ program = "bin"
    /\ fill.result \notin {"err", "hang", "exit"}
    /\ \E r \in {fill_frame(swapchain, app, ans)} :
           /\ swapchain' = r.sc
           /\ app' = r.app
           /\ fill' = r.fill
    /\ UNCHANGED <<libvars, seat, attach, reading, program>>

\* main after its loop (the ten seconds are over): wait for the device,
\* swapchain.destroy(), then the command pool, the device and the surface.
shutdown(sc, idle_fails) ==
    IF idle_fails
    THEN [sc |-> sc,
          fill |-> [NoFill EXCEPT !.failed = "idle", !.result = "err",
                                  !.busy_before = busy(sc)]]
    ELSE [sc |-> [device_wait_idle(sc) EXCEPT !.live = FALSE],
          fill |-> [NoFill EXCEPT
                       !.trace = <<"idle">> \o destroy
                                   \o <<"command_pool", "device", "surface">>,
                       !.busy_before = busy(sc),
                       !.released_busy = busy(device_wait_idle(sc)),
                       !.result = "exit"]]

Shutdown(idle_fails) ==
    /\ program = "bin"
    /\ fill.result \notin {"err", "hang", "exit"}
    /\ LET r == shutdown(swapchain, idle_fails)
       IN  /\ swapchain' = r.sc
           /\ fill' = r.fill
    /\ UNCHANGED <<libvars, seat, attach, reading, program, app>>

NoSwapchain == [live |-> FALSE]

\* AvySwapchain::new, the format it builds the swapchain in (lines
\* 180-189): B8G8R8A8_UNORM if the device lists it, else the first format
\* listed; None where first().unwrap() panics.
swapchain_format(formats) ==
    IF find_format(formats) # None THEN find_format(formats)
    ELSE IF formats = <<>> THEN None
    ELSE Some(Head(formats))

\* main, before its loop: AvySwapchain::new at the initial size
MainNewSwapchain(formats) ==
    /\ program = "bin" /\ ~aborted /\ ~swapchain.live
    /\ LET format == swapchain_format(formats)
       IN  /\ attach' = [program |-> "bin", formats |-> formats,
                         format |-> format,
                         result |-> IF format = None THEN "panic" ELSE "ok"]
           /\ aborted' = (format = None)
           /\ swapchain' = IF format = None THEN swapchain
                           ELSE AvySwapchain_new(<<INIT_WIDTH, INIT_HEIGHT>>)
    /\ UNCHANGED <<program, seat, surfaces, surface_backends, keyboard_focus,
                   log,
                   frame, stats, sent, active_touches, app, fill,
                   reading>>
NoApp == [size |-> Unset, changed_size |-> FALSE]

\* AvyClient::new
InitLib ==
    /\ program = "lib"
    /\ surfaces = Empty
    /\ surface_backends = Empty
    /\ keyboard_focus = None
    /\ aborted = FALSE
    /\ log = <<>>
    /\ frame = NoFrame
    /\ stats = [builds |-> 0, presents |-> 0, renders |-> 0]
    /\ sent = [count |-> 0, logical |-> Unset, factor |-> None]
    /\ app = NoApp
    /\ swapchain = NoSwapchain
    /\ fill = NoFill
    /\ active_touches = Empty
    /\ attach = NoAttach
    /\ reading = NoReading
    /\ seat = NoSeat

\* main, up to its loop: App::new and AvySwapchain::new at the initial size
InitBin ==
    /\ program = "bin"
    /\ surfaces = Empty
    /\ surface_backends = Empty
    /\ keyboard_focus = None
    /\ aborted = FALSE
    /\ log = <<>>
    /\ frame = NoFrame
    /\ stats = [builds |-> 0, presents |-> 0, renders |-> 0]
    /\ sent = [count |-> 0, logical |-> Unset, factor |-> None]
    /\ app = [size |-> <<INIT_WIDTH, INIT_HEIGHT>>, changed_size |-> FALSE]
    /\ swapchain = AvySwapchain_new(<<INIT_WIDTH, INIT_HEIGHT>>)
    /\ fill = NoFill
    /\ active_touches = Empty
    /\ attach = NoAttach
    /\ reading = NoReading
    /\ seat = NoSeat

\* main, before AvySwapchain::new
InitMain ==
    /\ program = "bin"
    /\ surfaces = Empty
    /\ surface_backends = Empty
    /\ keyboard_focus = None
    /\ aborted = FALSE
    /\ log = <<>>
    /\ frame = NoFrame
    /\ stats = [builds |-> 0, presents |-> 0, renders |-> 0]
    /\ sent = [count |-> 0, logical |-> Unset, factor |-> None]
    /\ app = [size |-> <<INIT_WIDTH, INIT_HEIGHT>>, changed_size |-> FALSE]
    /\ swapchain = NoSwapchain
    /\ fill = NoFill
    /\ active_touches = Empty
    /\ attach = NoAttach
    /\ reading = NoReading
    /\ seat = NoSeat

Init == InitLib \/ InitBin

\* The presentation path is modelled for one surface, the first identity.
Next ==
    \/ \E l \in LogicalSizes, evs \in RoundtripEvents : RegisterSurface(1, l, evs)
    \/ \E failing \in AttachFailures :
          MakeBackend(1, UsualFormats, failing)
    \/ \E l \in LogicalSizes : Configure(1, l)
    \/ \E n \in ScaleNumerators : ScaleFactorChanged(1, n)
    \/ \E dev \in DeviceAnswers : Render(1, dev)
    \/ \E size \in EngineSizes : AppConfigure(size)
    \/ \E ans \in EngineAnswers : FillFrame(ans)

Spec == Init /\ [][Next]_vars

\* The input router: surfaces are registered and the seat's keyboard events
\* arrive for any surface identity.
InitialSize == <<4, 1>>

NextInput ==
    \/ \E id \in SurfaceIds : RegisterSurface(id, InitialSize, <<>>)
    \/ \E id \in SurfaceIds : Enter(id)
    \/ \E id \in SurfaceIds : Leave(id)
    \/ PressKey
    \/ ReleaseKey
    \/ UpdateModifiers

SpecInput == InitLib /\ [][NextInput]_vars

\* The construction of a swapchain by either program, on a device that
\* lists any of the formats.
NextAttach ==
    \/ \E l \in LogicalSizes, evs \in RoundtripEvents :
          RegisterSurface(1, l, evs)
    \/ \E formats \in FormatLists, failing \in AttachFailures :
          MakeBackend(1, formats, failing)
    \/ \E formats \in FormatLists : MainNewSwapchain(formats)

SpecAttach == (InitLib \/ InitMain) /\ [][NextAttach]_vars

\* The touch router: two surfaces and the touch events of a seat.
NextTouch ==
    \/ \E id \in SurfaceIds : RegisterSurface(id, InitialSize, <<>>)
    \/ \E surface \in SurfaceIds, id \in TouchIds : Down(surface, id)
    \/ \E id \in TouchIds : Up(id)
    \/ \E id \in TouchIds : Motion(id)
    \/ \E id \in TouchIds : Shape(id)
    \/ \E id \in TouchIds : Orientation(id)
    \/ Cancel

SpecTouch == InitLib /\ [][NextTouch]_vars

\* The registry: surfaces registered, and registered again.
NextRegistry ==
    \/ \E id \in SurfaceIds, logical \in LogicalSizes, evs \in RoundtripEvents :
          RegisterSurface(id, logical, evs)
    \/ \E id \in SurfaceIds, logical \in LogicalSizes, evs \in RoundtripEvents :
          RegisterAgain(id, logical, evs)

SpecRegistry == InitLib /\ [][NextRegistry]_vars

\* The standalone engine alone: main's loop after AvySwapchain::new.
NextEngine ==
    \/ \E size \in EngineSizes : AppConfigure(size)
    \/ \E ans \in EngineAnswers : FillFrame(ans)
    \/ \E idle_fails \in BOOLEAN : Shutdown(idle_fails)

SpecEngine == InitBin /\ [][NextEngine]_vars

\* A render call on the application's thread beside the geometry events
\* handled on the event thread, for one surface.  The device either
\* presents the frame or has lost the swapchain at the acquire.
WorkingAnswers ==
    {d \in DeviceAnswers :
        d.acquire = "out_of_date" \/ (d.acquire = "ok" /\ d.present = "ok")}

NextConcurrent ==
    \/ \E l \in LogicalSizes : RegisterSurface(1, l, <<>>)
    \/ MakeBackend(1, UsualFormats, "none")
    \/ RenderLock(1)
    \/ RenderRead(1)
    \/ \E dev \in WorkingAnswers : RenderUnlock(1, dev)
    \/ \E ev \in GeometryEvents : SizeMutWait(1, ev)
    \/ \E l \in LogicalSizes : Configure(1, l)
    \/ \E n \in ScaleNumerators : ScaleFactorChanged(1, n)

SpecConcurrent == InitLib /\ [][NextConcurrent]_vars

\* The compositor closing layer surfaces that were registered.
NextClose ==
    \/ \E id \in SurfaceIds, logical \in LogicalSizes :
          RegisterSurface(id, logical, <<>>)
    \/ \E id \in SurfaceIds : Closed(id)

SpecClose == InitLib /\ [][NextClose]_vars

\* The owners the input router records, beside registration and closure:
\* the keyboard focus and the surface of a touch point.
NextOwners ==
    \/ \E id \in SurfaceIds : RegisterSurface(id, InitialSize, <<>>)
    \/ \E id \in SurfaceIds : Enter(id)
    \/ \E id \in SurfaceIds : Leave(id)
    \/ PressKey
    \/ \E surface \in SurfaceIds : Down(surface, 1)
    \/ Motion(1)
    \/ Up(1)
    \/ \E id \in SurfaceIds : Closed(id)

SpecOwners == InitLib /\ [][NextOwners]_vars

\* Geometry events for one of several surfaces, while the router holds a
\* keyboard focus and a touch point.
NextGeometry ==
    \/ \E id \in SurfaceIds : RegisterSurface(id, InitialSize, <<>>)
    \/ Enter(1)
    \/ Down(2, 1)
    \/ \E id \in SurfaceIds : Configure(id, <<4, 2>>)
    \/ \E id \in SurfaceIds : ScaleFactorChanged(id, 150)

SpecGeometry == InitLib /\ [][NextGeometry]_vars

\* Render calls whose recreation of the swapchain may fail in either way:
\* at swapchain.recreate or at the views of the new images.
ViewsFailed ==
    [recreate : {"views_err"}, acquire : {"none"}, skia : {"none"},
     present : {"none"}]

NextRecreate ==
    \/ \E l \in LogicalSizes : RegisterSurface(1, l, <<>>)
    \/ MakeBackend(1, UsualFormats, "none")
    \/ \E l \in LogicalSizes : Configure(1, l)
    \/ \E n \in ScaleNumerators : ScaleFactorChanged(1, n)
    \/ \E dev \in DeviceAnswers \cup ViewsFailed : Render(1, dev)

SpecRecreate == InitLib /\ [][NextRecreate]_vars

\* The seat gaining and losing capabilities, and going away.
NextSeat ==
    \/ \E capability \in Capabilities, rel \in BOOLEAN :
          NewCapability(capability, rel)
    \/ \E capability \in Capabilities : RemoveCapability(capability)
    \/ RemoveSeat

SpecSeat == InitLib /\ [][NextSeat]_vars

\* The pointer router, with a keyboard focus and a touch on surface 1
\* beside it.
NextPointer ==
    \/ \E id \in SurfaceIds : RegisterSurface(id, InitialSize, <<>>)
    \/ Enter(1)
    \/ Down(1, 1)
    \/ \E events \in PointerFrames : PointerFrame(events)

SpecPointer == InitLib /\ [][NextPointer]_vars

\* Size under resize and rescale: one surface, every height up to
\* MaxLogical, and the scales 1.0, 1.025, 1.25, 1.5 and 2.0.
WideSizes == {<<MaxLogical, h>> : h \in 1..MaxLogical}
WideScales == {120, 123, 150, 180, 240}

NextSize ==
    \/ \E logical \in WideSizes : RegisterSurface(1, logical, <<>>)
    \/ \E logical \in WideSizes : Configure(1, logical)
    \/ \E factor \in WideScales : ScaleFactorChanged(1, factor)

SpecSize == InitLib /\ [][NextSize]_vars

(***************************************************************************)
(* Properties of the presentation path                                     *)
(***************************************************************************)
\* num/den rounded to the nearest integer, halves away from zero (num >= 0)
round_half_away(num, den) ==
    IF 2 * (num % den) >= den THEN (num \div den) + 1 ELSE num \div den

\* The physical size that belongs to a logical size and a scale factor.
expected_physical(logical, factor) ==
    IF factor = None THEN logical
    ELSE <<round_half_away(logical[1] * unwrap(factor), 120),
           round_half_away(logical[2] * unwrap(factor), 120)>>

\* The physical size of the geometry the compositor had sent last when the
\* last render call began.
frame_physical == expected_physical(frame.logical, frame.factor)

Rendered == frame.id # 0

\* No call the last render made was answered with an error or out-of-date.
Clean(f) ==
    /\ f.recreate # "err"
    /\ f.acquire \notin {"err", "out_of_date"}
    /\ f.skia # "err"
    /\ f.present \notin {"err", "out_of_date"}

\* C1: a render call that follows one or more resize/rescale calls recreates
\* the swapchain exactly once, asking for the physical size of the logical
\* size and scale factor applied last; the swapchain it builds and the
\* target it draws into have that size and no other.
C1_RecreatesOnceAtLatestSize ==
    (Rendered /\ frame.changes >= 1) =>
        /\ frame.recreations = 1
        /\ frame.recreate_extent = frame_physical
        /\ (frame.recreate = "ok" /\ sent.count = 0 =>
                surface_backends[frame.id].extent = frame_physical)
        /\ (frame.drew => /\ frame.draw_size = frame_physical
                          /\ frame.target_extent = frame_physical)

\* C1 witness: two geometry events, the last one a scale that changes the
\* physical size, were coalesced into one recreation that was drawn.
C1_Witness ==
    /\ Rendered /\ frame.changes = 2
    /\ frame.recreations = 1 /\ frame.recreate = "ok"
    /\ frame.drew /\ frame.presented
    /\ frame_physical # frame.logical

\* C2: handle_changes invokes its handler once when has_changed is set and
\* not at all when it is clear, and leaves the flag clear.
C2_HandlerOnlyWhenDirty ==
    Rendered =>
        /\ frame.handler_calls = (IF frame.dirty THEN 1 ELSE 0)
        /\ (sent.count = 0 => ~surfaces[frame.id].size.has_changed)

C4_OneBuildOnePresent ==
    (stats.renders = 1 /\ frame.changes = 0 /\ ~frame.dirty /\ frame.presented) =>
        /\ stats.builds = 1
        /\ stats.presents = 1

\* C5: out-of-date at acquire: render returns Ok, the callback is not invoked
\* and nothing is presented; the next render call, same geometry and no
\* further staleness or failure, recreates the swapchain, draws and presents.
C5_OutOfDateAtAcquire ==
    /\ (Rendered /\ frame.acquire = "out_of_date") =>
          /\ frame.result = "ok"
          /\ ~frame.drew /\ ~frame.submitted /\ ~frame.presented
    /\ (Rendered /\ frame.prev.acquire = "out_of_date" /\ frame.changes = 0
            /\ Clean(frame) /\ frame.acquire # "suboptimal") =>
          /\ frame.recreations = 1 /\ frame.recreate = "ok"
          /\ frame.drew /\ frame.presented
          /\ frame.result = "ok"

\* C5 witness: the call after an out-of-date acquire presented.
C5_Witness ==
    /\ Rendered /\ frame.prev.acquire = "out_of_date" /\ frame.changes = 0
    /\ frame.recreate = "ok" /\ frame.drew /\ frame.presented

\* C6: suboptimal at acquire: the call still draws and presents the image
\* it acquired and leaves the swapchain it drew into in place, marked for
\* recreation; the next render call recreates it before it acquires.
C6_SuboptimalDrawsThenRecreates ==
    /\ (Rendered /\ frame.acquire = "suboptimal" /\ frame.skia # "err") =>
          /\ frame.drew /\ frame.submitted
          /\ (frame.present = "ok" => frame.presented /\ frame.result = "ok")
          /\ surface_backends[frame.id].recreate_swapchain
          /\ surface_backends[frame.id].extent = frame.target_extent
    /\ (Rendered /\ frame.prev.acquire = "suboptimal") =>
          /\ frame.recreations = 1
          /\ frame.recreate # "none"

\* C6 witness: a suboptimal frame was presented and the next call recreated.
C6_Witness ==
    /\ Rendered /\ frame.prev.acquire = "suboptimal"
    /\ frame.prev.present = "ok" /\ frame.prev.result = "ok"
    /\ frame.recreate = "ok"

(***************************************************************************)
(* Properties of both presentation engines                                 *)
(***************************************************************************)
Filled == fill.result # "none"

\* The device reported out-of-date or suboptimal to a call of the record.
StaleReported(f) ==
    \/ f.acquire \in {"out_of_date", "suboptimal"}
    \/ f.present \in {"out_of_date", "suboptimal"}

\* A call of the render call was answered with another failure code.
OtherFailure(f) == "err" \in {f.recreate, f.acquire, f.skia, f.present}

\* The swapchain of the standalone engine is as AvySwapchain::new built it.
Fresh == swapchain = AvySwapchain_new(swapchain.size)

\* C7: out-of-date or suboptimal at acquire or at present is never returned
\* as an error: the render call returns a non-error result, and the
\* swapchain is recreated (fill_frame: in the same call; VulkanSurface: it
\* is marked, and the next call recreates it before it draws); an error is
\* returned only when some call was answered with another failure code.
C7_StalenessIsNotAnError ==
    /\ Rendered =>
          /\ frame.result = "err" => OtherFailure(frame)
          /\ (StaleReported(frame) /\ ~OtherFailure(frame)) =>
                /\ frame.result = "ok"
                /\ surface_backends[frame.id].recreate_swapchain
          /\ (StaleReported(frame.prev) /\ frame.drew) =>
                /\ frame.recreations = 1
                /\ frame.recreate = "ok"
    /\ Filled =>
          /\ fill.result = "err" => fill.failed # "none"
          /\ (StaleReported(fill) /\ fill.failed = "none") =>
                /\ fill.result = "break"
                /\ fill.recreations = 1
                /\ Fresh

\* C7 witness: present reported out-of-date, render returned Ok, and the
\* next render call recreated the swapchain and drew.
C7_Witness ==
    /\ Rendered /\ frame.prev.present = "out_of_date"
    /\ frame.prev.result = "ok"
    /\ frame.recreate = "ok" /\ frame.drew /\ frame.presented

\* How many of the conditions hold.
Ways(conditions) == Cardinality({i \in DOMAIN conditions : conditions[i]})

\* The ways a VulkanSurface::render call ends.
RenderFull ==
    frame.result = "ok" /\ frame.drew /\ frame.submitted /\ frame.presented
RenderEarly ==
    /\ frame.result = "ok" /\ frame.acquire = "out_of_date"
    /\ ~frame.drew /\ ~frame.submitted /\ ~frame.presented
RenderFatal == frame.result = "err"
RenderStaleAtPresent ==
    /\ frame.result = "ok" /\ frame.present = "out_of_date"
    /\ frame.drew /\ frame.submitted /\ ~frame.presented
    /\ surface_backends[frame.id].recreate_swapchain

\* The ways an AvySwapchain::fill_frame call ends.
FillFull ==
    fill.result \in {"continue", "break"} /\ fill.submitted /\ fill.presented
FillEarly ==
    /\ fill.result = "break" /\ ~fill.submitted /\ ~fill.presented
    /\ (fill.changed \/ fill.acquire \in {"out_of_date", "suboptimal"})
FillFatal == fill.result = "err"
FillStaleAtPresent ==
    /\ fill.result = "break" /\ fill.present = "out_of_date"
    /\ fill.submitted /\ ~fill.presented
    /\ fill.recreations = 1 /\ Fresh

\* C8 (as claimed): a render call ends in exactly one of three ways: a full
\* submit and present; an early return on staleness with nothing drawn or
\* submitted; a fatal error.  No call returns success after it drew and
\* submitted without a successful present.
C8_ThreeWaysToEnd ==
    /\ Rendered =>
          /\ Ways(<<RenderFull, RenderEarly, RenderFatal>>) = 1
          /\ (frame.result = "ok" /\ frame.drew /\ frame.submitted) =>
                frame.presented
    /\ Filled =>
          /\ Ways(<<FillFull, FillEarly, FillFatal>>) = 1
          /\ (fill.result # "err" /\ fill.submitted) => fill.presented

\* C8 (amended): a render call ends in exactly one of four ways: the three
\* claimed, or it drew and submitted, present reported out-of-date, and the
\* call returns success with the swapchain marked for recreation
\* (VulkanSurface::render) or recreated (fill_frame).
C8_FourWaysToEnd ==
    /\ Rendered =>
          Ways(<<RenderFull, RenderEarly, RenderFatal,
                 RenderStaleAtPresent>>) = 1
    /\ Filled =>
          Ways(<<FillFull, FillEarly, FillFatal, FillStaleAtPresent>>) = 1

\* C8 witness: a render call drew and submitted, present reported
\* out-of-date, and the call returned Ok.
C8_Witness ==
    /\ Rendered /\ frame.result = "ok"
    /\ frame.drew /\ frame.submitted /\ ~frame.presented
    /\ frame.present = "out_of_date"

(***************************************************************************)
(* Properties of the input router                                          *)
(***************************************************************************)
LastEvent == log[Len(log)]

\* The enter and leave events handled before the i-th event.
FocusEventsBefore(i) == {j \in 1..(i - 1) : log[j].event \in {"enter", "leave"}}

Latest(js) == CHOOSE j \in js : \A k \in js : k <= j

\* No surface has the focus when the i-th event arrives: no enter was
\* handled yet, or a leave was handled after the last enter.
Unfocused(i) ==
    \/ FocusEventsBefore(i) = {}
    \/ log[Latest(FocusEventsBefore(i))].event = "leave"

\* C9: a key event goes to the surface in keyboard_focus and to no other;
\* with no focus (initially, or after a leave and before a new enter) it is
\* dropped: no handler is invoked and nothing fails.
C9_KeyEventsFollowFocus ==
    /\ \A i \in 1..Len(log) :
          log[i].event \in KeyEvents =>
              /\ log[i].focus # None => log[i].to = {unwrap(log[i].focus)}
              /\ log[i].focus = None => log[i].to = {}
              /\ Unfocused(i) => log[i].to = {}
    /\ (Len(log) > 0 /\ LastEvent.event \in KeyEvents) => ~aborted

\* C9 witness: a key was delivered to the focused surface, the focus left,
\* and the next key was dropped.
C9_Witness ==
    /\ Len(log) >= 3 /\ ~aborted
    /\ \E i \in 1..(Len(log) - 2) :
          /\ log[i].event = "press_key" /\ log[i].to # {}
          /\ log[i + 1].event = "leave"
          /\ log[i + 2].event \in KeyEvents /\ log[i + 2].to = {}

\* C10: leave(surface) tells that surface, and clears keyboard_focus only
\* if the focus is the leaving surface: after enter(A), enter(B), leave(A)
\* the focus is still B.
C10_LeaveClearsOnlyOwnFocus ==
    (Len(log) > 0 /\ LastEvent.event = "leave" /\ ~aborted) =>
        /\ LastEvent.to = {LastEvent.surface}
        /\ keyboard_focus =
              (IF LastEvent.focus = Some(LastEvent.surface)
               THEN None ELSE LastEvent.focus)
(***************************************************************************)
(* Properties of the touch router                                          *)
(***************************************************************************)
\* The downs of an id handled before the i-th event and not followed, before
\* it, by an up of that id or by a cancel.
OpenDowns(i, id) ==
    {j \in 1..(i - 1) :
        /\ log[j].event = "down" /\ log[j].id = id
        /\ \A k \in (j + 1)..(i - 1) :
              /\ log[k].event # "cancel"
              /\ ~(log[k].event = "up" /\ log[k].id = id)}

\* C11: after down(A, id), every motion, shape, orientation and up that
\* carries the id, until the up or a cancel, is forwarded to A and to no
\* other surface, whatever other ids are active on other surfaces.
C11_TouchFollowsItsDown ==
    \A i \in 1..Len(log) :
        (log[i].event \in TouchEvents /\ OpenDowns(i, log[i].id) # {}) =>
            log[i].to = {log[Latest(OpenDowns(i, log[i].id))].surface}

\* C11 witness: a motion reached the surface of its down while another id
\* was active on another surface.
C11_Witness ==
    \E i \in 1..Len(log) :
        /\ log[i].event = "motion" /\ log[i].to # {}
        /\ \E k \in DOMAIN log[i].touches :
              /\ k # log[i].id
              /\ log[i].touches[k] \notin log[i].to

\* active_touches as the claim has it after an event.
TouchesAfter(e) ==
    CASE e.event = "up" ->
           [k \in (DOMAIN e.touches) \ {e.id} |-> e.touches[k]]
      [] e.event = "down" ->
           [k \in (DOMAIN e.touches) \cup {e.id} |->
               IF k = e.id THEN e.surface ELSE e.touches[k]]
      [] OTHER -> e.touches

\* C12: up(id) removes the entry of id and no other; motion, shape and
\* orientation leave active_touches as it was; down(surface, id) adds the
\* entry id -> surface and no other.
C12_TouchMapUpdates ==
    (Len(log) > 0 /\ ~aborted
        /\ LastEvent.event \in TouchEvents \cup {"down"}) =>
        active_touches = TouchesAfter(LastEvent)

\* C12 witness: an up removed its id and another touch is still active.
C12_Witness ==
    /\ Len(log) > 0 /\ ~aborted /\ LastEvent.event = "up"
    /\ DOMAIN active_touches # {}
    /\ LastEvent.id \notin DOMAIN active_touches

\* C13: cancel tells every surface that owns an active touch, and leaves
\* active_touches empty.
C13_CancelTellsEveryOwner ==
    (Len(log) > 0 /\ LastEvent.event = "cancel"
        /\ DOMAIN LastEvent.touches # {}) =>
        /\ ~aborted
        /\ LastEvent.to = values(LastEvent.touches)
        /\ DOMAIN active_touches = {}

\* C14: an up, motion, shape or orientation whose id has no entry in
\* active_touches is fatal: the handler panics and tells no surface.
C14_UnknownTouchIsFatal ==
    \A i \in 1..Len(log) :
        (log[i].event \in TouchEvents
            /\ log[i].id \notin DOMAIN log[i].touches) =>
            /\ log[i].to = {}
            /\ aborted /\ i = Len(log)

\* C14 witness: a motion with an unknown id panicked while another touch
\* was active.
C14_Witness ==
    /\ Len(log) > 0 /\ aborted /\ LastEvent.event = "motion"
    /\ LastEvent.id \notin DOMAIN LastEvent.touches
    /\ DOMAIN LastEvent.touches # {}
    /\ LastEvent.to = {}
(***************************************************************************)
(* Properties of the registry                                              *)
(***************************************************************************)
\* C15: registering an identity the registry holds already fails and
\* leaves the registry unchanged: the record stored for the identity is
\* still the one registered first.
C15_RegisteredRecordIsKept ==
    [][\A id \in Registered : surfaces'[id] = surfaces[id]]_vars

\* C16: register_surface inserts, commits and makes the round-trip before
\* it returns: no event of the round-trip misses the surface, and the
\* geometry the caller finds is the geometry the compositor sent last.
C16_RegisteredBeforeRoundtrip ==
    [][\A id \in SurfaceIds :
          (id \notin Registered /\ id \in Registered') =>
              /\ ~aborted'
              /\ surfaces'[id].committed
              /\ surfaces'[id].size.logical = sent'.logical
              /\ surfaces'[id].size.scale_factor = sent'.factor
              /\ sent'.count > 0 =>
                    surfaces'[id].viewport.destination = sent'.logical]_vars

\* C16 witness: a surface whose registration dispatched a configure and a
\* preferred scale that changed its logical and its physical size.
C16_Witness ==
    /\ Registered = {1} /\ ~aborted
    /\ sent.count = 2 /\ sent.factor = Some(150)
    /\ surfaces[1].committed
    /\ surfaces[1].size.logical = sent.logical
    /\ surfaces[1].size.scale_factor = sent.factor
    /\ surfaces[1].viewport.destination = sent.logical
    /\ physical_size(surfaces[1].size) # sent.logical
(***************************************************************************)
(* Properties of Size                                                      *)
(***************************************************************************)
\* C17: physical_size is, in each dimension, the logical value times n/120
\* rounded to the nearest integer, halves away from zero, when a scale
\* factor is set, and the logical size when none is set, after any
\* sequence of resize and rescale calls.
C17_PhysicalIsRoundedProduct ==
    1 \in Registered =>
        physical_size(surfaces[1].size) =
            expected_physical(surfaces[1].size.logical,
                              surfaces[1].size.scale_factor)

\* |a - b|
distance(a, b) == IF a >= b THEN a - b ELSE b - a

\* C18: for the scale factors 1.0, 1.25, 1.5 and 2.0 the physical size
\* divided by the scale factor and rounded is within 1 of the logical size,
\* in each dimension.
C18_PhysicalRoundTrip ==
    (1 \in Registered
        /\ surfaces[1].size.scale_factor \in {<<120>>, <<150>>, <<180>>, <<240>>}) =>
        LET size == surfaces[1].size
            n == size.scale_factor[1]
        IN  \A i \in 1..2 :
               distance(round_half_away(physical_size(size)[i] * 120, n),
                        size.logical[i]) <= 1

\* C18 witness: at the scale 1.25 a height whose product is a half was
\* rounded up, and dividing by 1.25 gives the height back.
C18_Witness ==
    /\ 1 \in Registered
    /\ surfaces[1].size.scale_factor = <<150>>
    /\ surfaces[1].size.logical[2] = 2
    /\ physical_size(surfaces[1].size)[2] = 3
    /\ round_half_away(3 * 120, 150) = 2
(***************************************************************************)
(* Properties of the viewport                                              *)
(***************************************************************************)
\* C19: after every configure and every scale change handled for a
\* registered surface its viewport destination is its logical size and its
\* viewport source is (0, 0, physical width, physical height), both of the
\* geometry as it is after the event.
C19_ViewportFollowsGeometry ==
    [][(sent'.count > sent.count /\ 1 \in Registered') =>
          LET s == surfaces'[1]
              p == physical_size(s.size)
          IN  /\ s.size.logical = sent'.logical
              /\ s.size.scale_factor = sent'.factor
              /\ s.viewport.destination = sent'.logical
              /\ s.viewport.source = <<0, 0, p[1], p[2]>>]_vars

\* C19 witness: after a geometry event at the scale 1.25 the viewport maps
\* the larger physical rectangle onto the logical size.
C19_Witness ==
    /\ 1 \in Registered /\ sent.count >= 1 /\ sent.factor = Some(150)
    /\ surfaces[1].viewport.destination = sent.logical
    /\ surfaces[1].viewport.source # Unset
    /\ surfaces[1].viewport.source[3] > surfaces[1].viewport.destination[1]
    /\ surfaces[1].viewport.source[4] >= surfaces[1].viewport.destination[2]
(***************************************************************************)
(* Properties of the pointer router                                        *)
(***************************************************************************)
\* How often a surface occurs in a sequence of surfaces.
occurrences(seq, surface) == Cardinality({i \in DOMAIN seq : seq[i] = surface})

\* C20: each event of a pointer frame is forwarded to the registered
\* surface it names and to no other, whatever keyboard_focus and
\* active_touches hold; an event that names an unregistered surface is
\* skipped without failure; pointer_frame changes no routing state.
C20_PointerFollowsEventSurface ==
    /\ \A i \in 1..Len(log) :
          log[i].event = "pointer_frame" =>
              /\ Len(log[i].forwarded) <= Len(log[i].names)
              /\ \A surface \in PointerSurfaces :
                    occurrences(log[i].forwarded, surface) =
                        (IF surface \in log[i].registered
                         THEN occurrences(log[i].names, surface) ELSE 0)
    /\ (Len(log) > 0 /\ LastEvent.event = "pointer_frame") =>
          /\ ~aborted
          /\ keyboard_focus = LastEvent.focus
          /\ active_touches = LastEvent.touches

\* C20 witness: with the focus and a touch on one surface, a frame naming
\* another registered surface and an unregistered one reached the former
\* only.
C20_Witness ==
    /\ Len(log) > 0 /\ LastEvent.event = "pointer_frame" /\ ~aborted
    /\ Len(LastEvent.names) = 2 /\ Len(LastEvent.forwarded) = 1
    /\ LastEvent.focus # None
    /\ DOMAIN LastEvent.touches # {}
    /\ LastEvent.forwarded[1] \notin {unwrap(LastEvent.focus)}
                                      \cup values(LastEvent.touches)
    /\ \E i \in 1..2 : LastEvent.names[i] \notin LastEvent.registered
\* C21 (as claimed, for each program): when the device lists no
\* B8G8R8A8_UNORM format and the device itself was created, the construction
\* of the swapchain ends with Error::UnsupportedBGRA and takes no format.
C21_NoFormatNoSwapchain ==
    (/\ attach.program \in {"lib", "bin"}
     /\ find_format(attach.formats) = None
     /\ attach.result # "device_error") =>
        /\ attach.result = "UnsupportedBGRA"
        /\ attach.format = None

\* C22 (as claimed): once the compositor has signalled the closure of a
\* registered layer surface, its identity is no longer in the registry.
C22_ClosedSurfaceIsGone ==
    (log # <<>> /\ log[Len(log)].event = "closed") =>
        log[Len(log)].surface \notin Registered

\* C23: whatever a render call reads from the size while geometry events
\* arrive (the extent of the recreation, the size of the render target, the
\* canvas scale) is what the one size held when the call took the read
\* guard: no read sees a size a handler has changed since.
C23_ReaderSeesOnePair ==
    \A k \in DOMAIN reading.seen :
        reading.seen[k] = read_value(reading.at_lock, k)

\* A render call has made its three reads of a scaled size while the
\* handler of a geometry event waits for the write guard.
C23_Witness ==
    /\ reading.holder = 1 /\ Len(reading.seen) = 3
    /\ reading.waiting # None
    /\ reading.at_lock.scale_factor = Some(150)
    /\ stats.renders = 1

\* C24: an error of a fence wait, of the acquire or of the present (other
\* than out-of-date and suboptimal) ends the call with that error: the call
\* recreates nothing and tries nothing again, and nothing is submitted or
\* presented after the step that failed.
C24_DeviceErrorsEndTheCall ==
    /\ (fill.failed \in {"wait", "acquire", "wait_last"} =>
            /\ fill.result = "err" /\ fill.recreations = 0
            /\ ~fill.submitted /\ ~fill.presented /\ ~fill.advanced)
    /\ (fill.failed = "present" =>
            /\ fill.result = "err" /\ fill.recreations = 0
            /\ fill.submitted /\ ~fill.presented /\ ~fill.advanced)
    /\ (frame.acquire = "err" =>
            /\ frame.result = "err"
            /\ ~frame.drew /\ ~frame.submitted /\ ~frame.presented)
    /\ (frame.present = "err" =>
            /\ frame.result = "err"
            /\ frame.submitted /\ ~frame.presented)

\* The engine's second frame failed in the wait for the fence that guards
\* the image it acquired.
C24_Witness ==
    /\ fill.failed = "wait_last" /\ fill.result = "err"
    /\ fill.acquire = "ok"

\* C25: whenever fill_frame submits the command buffer of the element of
\* the image it acquired, no earlier submission of that command buffer is
\* still in flight: the fence given to it has been waited for, or the device
\* has been idle, since.
C25_OneSubmissionInFlight ==
    fill.submitted => ~fill.overlap

\* A frame was submitted for an image whose command buffer was still in
\* flight when the image was acquired.
C25_Witness ==
    /\ fill.submitted /\ fill.in_flight_at_acquire
    /\ fill.result = "continue"

\* C26: current_frame is always an index of elements; a fill_frame call
\* that ends with Continue (its present succeeded) moves it on by one modulo
\* the number of elements, a call that ends with Break (it recreated the
\* swapchain) leaves it 0, and a call that ends with an error leaves it as
\* it was.
C26_CursorCycles ==
    /\ [](swapchain.current_frame \in DOMAIN swapchain.elements)
    /\ [][~app'.changed_size =>
            /\ (fill'.result = "continue" =>
                    swapchain'.current_frame =
                        (swapchain.current_frame + 1) % ImageCount)
            /\ (fill'.result = "break" => swapchain'.current_frame = 0)
            /\ (fill'.result = "err" =>
                    swapchain'.current_frame = swapchain.current_frame)]_vars

\* The cursor has wrapped: a call that presented left it at 0.
C26_Witness ==
    /\ fill.result = "continue" /\ fill.advanced
    /\ swapchain.current_frame = 0

\* C27: whenever the engine releases swapchain resources, at a recreation
\* or at shutdown, it has first waited for the device to be idle, then
\* releases the elements, then the render pass, then the swapchain; nothing
\* is released while the GPU may still be at work, and a new swapchain is
\* built only after the whole release.
C27_ReleaseIsOrdered ==
    fill.trace # <<>> =>
        /\ ~fill.released_busy
        /\ Len(fill.trace) >= 4
        /\ SubSeq(fill.trace, 1, 4) =
                <<"idle", "elements", "render_pass", "swapchain">>
        /\ \A k \in DOMAIN fill.trace : fill.trace[k] = "build" => k = 5

\* A recreation while a submitted frame was still in flight: the present
\* reported the swapchain out of date.
C27_Witness ==
    /\ fill.busy_before /\ fill.submitted
    /\ fill.trace =
          <<"idle", "elements", "render_pass", "swapchain", "build">>

\* C28: whenever a render call draws, the swapchain it draws into has the
\* physical size of the geometry the compositor had sent last when the call
\* began, and so has the render target; whenever the standalone engine
\* submits a frame, its render area is the size the App holds.
C28_DrawnAtCurrentSize ==
    /\ (frame.drew =>
            /\ frame.target_extent =
                  physical_size([Size_new(frame.logical)
                                    EXCEPT !.scale_factor = frame.factor])
            /\ frame.draw_size = frame.target_extent)
    /\ (fill.submitted => fill.extent = fill.geometry)

\* A second render call drew at 5 x 3 (4 x 2 at the scale 1.25) after
\* geometry events that followed a first frame.
C28_Witness ==
    /\ stats.renders = 2 /\ frame.drew
    /\ frame.prev.present = "ok" /\ frame.changes >= 1
    /\ frame.target_extent = <<5, 3>>

\* C29: resize replaces the logical size, leaves the scale factor and sets
\* the dirty flag, also when the new size is the old one; rescale replaces
\* the scale factor, leaves the logical size and sets the flag; after any
\* resize or rescale that no handle_changes has followed the flag is set.
C29_ResizeRescaleSetDirty ==
    /\ []((1 \in Registered /\ sent.count > 0) =>
            surfaces[1].size.has_changed)
    /\ [][(1 \in Registered /\ sent'.count = sent.count + 1) =>
            LET old == surfaces[1].size
                new == surfaces'[1].size
            IN  /\ new.has_changed
                /\ new.logical = sent'.logical
                /\ new.scale_factor = sent'.factor
                /\ (sent'.factor = sent.factor =>
                        new.scale_factor = old.scale_factor)
                /\ (sent'.logical = sent.logical =>
                        new.logical = old.logical)]_vars

\* A resize and a rescale were applied one after the other and the flag is
\* set.
C29_Witness ==
    /\ 1 \in Registered /\ sent.count = 2
    /\ surfaces[1].size.has_changed
    /\ surfaces[1].size.logical = <<MaxLogical, 2>>
    /\ surfaces[1].size.scale_factor = Some(150)

\* C30: a fill_frame call that finds app.changed_size set clears it and
\* acquires, submits and presents nothing; unless the recreation fails it
\* returns Break with the swapchain rebuilt at app.size.  The call after it,
\* no call of it failing or reporting staleness, submits and presents at
\* that size.
C30_ResizeThenDraw ==
    [][/\ (app.changed_size /\ ~app'.changed_size) =>
            /\ fill'.changed /\ fill'.acquire = "none"
            /\ ~fill'.submitted /\ ~fill'.presented /\ ~fill'.advanced
            /\ fill'.recreations = 1
            /\ (fill'.failed = "none" =>
                    /\ fill'.result = "break"
                    /\ fill'.built = app.size
                    /\ swapchain' = AvySwapchain_new(app.size))
       /\ (/\ fill.changed /\ fill.result = "break"
           /\ ~app.changed_size /\ ~app'.changed_size
           /\ fill'.failed = "none" /\ fill'.acquire = "ok"
           /\ fill'.present = "ok") =>
            /\ fill'.result = "continue"
            /\ fill'.submitted /\ fill'.presented
            /\ fill'.extent = app.size
            /\ fill'.extent = fill.built]_vars

\* A frame was submitted and presented at 1920 x 40, the size a configure
\* brought after the swapchain was built at 1920 x 60.
C30_Witness ==
    /\ fill.result = "continue" /\ fill.submitted /\ fill.presented
    /\ fill.extent = <<INIT_WIDTH, 40>>
    /\ fill.extent = app.size /\ ~app.changed_size

\* C31: in the standalone engine, a fill_frame call whose image acquisition
\* reports suboptimal still submits and presents the frame and recreates
\* nothing within the call; the swapchain is recreated by the next call.
C31_SuboptimalAcquireStillPresents ==
    (fill.acquire = "suboptimal" /\ fill.failed = "none") =>
        /\ fill.submitted /\ fill.presented
        /\ fill.recreations = 0

(***************************************************************************)
(* Properties of the seat                                                  *)
(***************************************************************************)
\* C32: after any sequence of new_capability, remove_capability and
\* remove_seat events the client holds a pointer, a keyboard and a touch
\* object exactly when the seat has the capability: added and not removed
\* since, by itself or with the seat.
C32_CapabilitiesMirrorSeat ==
    /\ seat.pointer <=> "Pointer" \in seat.caps
    /\ seat.keyboard <=> "Keyboard" \in seat.caps
    /\ seat.touch <=> "Touch" \in seat.caps

\* C33: in every state the client has not panicked in, the keyboard focus,
\* when set, and the surface of every active touch point are registered
\* surfaces: the lookup of the recorded owner of a key or touch event finds
\* a record.
C33_OwnersAreRegistered ==
    ~aborted =>
        /\ key_target(keyboard_focus) \subseteq Registered
        /\ values(active_touches) \subseteq Registered

\* A key was forwarded to the focused surface after the compositor had
\* closed that surface, while a touch point was down.
C33_Witness ==
    /\ ~aborted /\ keyboard_focus # None /\ active_touches # Empty
    /\ \E i, j \in DOMAIN log :
          /\ i < j
          /\ log[i].event = "closed"
          /\ log[i].surface \in key_target(keyboard_focus)
          /\ log[j].event = "press_key"
          /\ log[j].to = key_target(keyboard_focus)

(***************************************************************************)
(* Properties of the geometry handlers                                     *)
(***************************************************************************)
\* C34: a configure or scale-change event for a surface changes the size
\* and the viewport of that surface and nothing else: the record of every
\* other registered surface (its geometry and dirty flag with it), the set
\* of registered surfaces, the keyboard focus and the active touches are as
\* they were.
C34_GeometryEventsAreLocal ==
    [][\A a \in SurfaceIds :
          ((\E logical \in LogicalSizes : Configure(a, logical))
              \/ (\E factor \in ScaleNumerators : ScaleFactorChanged(a, factor)))
          =>  /\ Registered' = Registered
              /\ \A b \in Registered \ {a} : surfaces'[b] = surfaces[b]
              /\ surfaces'[a].committed = surfaces[a].committed
              /\ keyboard_focus' = keyboard_focus
              /\ active_touches' = active_touches
              /\ surface_backends' = surface_backends]_vars

\* Two surfaces are registered, one has the focus and a touch point is
\* down; a geometry event has made one surface dirty and left the other
\* clean.
C34_Witness ==
    /\ Registered = {1, 2} /\ sent.count >= 1
    /\ keyboard_focus # None /\ active_touches # Empty
    /\ surfaces[1].size.has_changed # surfaces[2].size.has_changed

(***************************************************************************)
(* Properties of make_backend                                              *)
(***************************************************************************)
\* C35: a make_backend call whose backend creation fails returns the error
\* and leaves surface_backends as it was; in every state each key of
\* surface_backends is a key of surfaces.
C35_FailedAttachLeavesBackends ==
    /\ [](Attached \subseteq Registered)
    /\ []((attach.program = "lib" /\ attach.result \notin {"none", "ok"})
            => 1 \notin Attached)
    /\ [][(attach'.program = "lib" /\ attach' # attach
              /\ attach'.result # "ok")
            => /\ attach'.result \in
                    {"device_error", "UnsupportedBGRA", "swapchain_error"}
               /\ surface_backends' = surface_backends
               /\ surfaces' = surfaces]_vars

\* Backend creation has failed for a registered surface: the device lists
\* formats, but not B8G8R8A8_UNORM.
C35_Witness ==
    /\ 1 \in Registered /\ 1 \notin Attached
    /\ attach.program = "lib" /\ attach.result = "UnsupportedBGRA"
    /\ attach.formats # <<>>

(***************************************************************************)
(* Properties of the locks                                                 *)
(***************************************************************************)
\* C36: a render call and the geometry handlers never deadlock.  A render
\* call that holds the read guard can always take its next step, a read or
\* its return, whether or not a handler waits; and a handler that waits for
\* the write guard can run as soon as the render call has returned, while
\* the run goes on.
C36_NoDeadlock ==
    /\ reading.holder # 0 =>
          \/ ENABLED RenderRead(reading.holder)
          \/ \E dev \in WorkingAnswers :
                ENABLED RenderUnlock(reading.holder, dev)
    /\ (reading.waiting # None /\ reading.holder = 0
            /\ stats.renders < MaxRenders) =>
          LET ev == unwrap(reading.waiting)
          IN  IF ev.kind = "configure"
              THEN ENABLED Configure(1, ev.new_size)
              ELSE ENABLED ScaleFactorChanged(1, ev.factor)

\* A render call has returned while the handler of a geometry event was
\* waiting for the write guard: the handler runs next.
C36_Witness ==
    /\ reading.waiting # None /\ reading.holder = 0
    /\ stats.renders = 1 /\ frame.id = 1

(***************************************************************************)
(* Properties of the engine's fences                                       *)
(***************************************************************************)
\* C37: a fence that next_element has reset is given to the queue
\* submission of the same fill_frame call unless the call ends with an
\* error: after every call that did not fail each fence is signaled or has
\* a pending submission, every last_fence names such a fence, and no
\* fill_frame call waits for ever.
C37_FencesAreSubmitted ==
    /\ fill.result # "hang"
    /\ (swapchain.live /\ fill.result # "err") =>
          \A i \in DOMAIN swapchain.elements :
              LET e == swapchain.elements[i]
              IN  /\ e.fence \in {"signaled", "pending"}
                  /\ e.last_fence # None =>
                        /\ unwrap(e.last_fence) \in DOMAIN swapchain.elements
                        /\ swapchain.elements[unwrap(e.last_fence)].fence
                              \in {"signaled", "pending"}

\* The cursor has come round to an element whose fence was reset and
\* submitted and is still pending, and an image's last_fence is that fence:
\* the next call waits for it.
C37_Witness ==
    /\ swapchain.live /\ fill.result = "continue"
    /\ swapchain.elements[swapchain.current_frame].fence = "pending"
    /\ \E i \in DOMAIN swapchain.elements :
          swapchain.elements[i].last_fence = Some(swapchain.current_frame)

(***************************************************************************)
(* Properties of VulkanSurface's own state                                 *)
(***************************************************************************)
\* C38: the previous_frame_end of every backend holds a future (it is Some)
\* whenever a render call may begin, whatever the earlier render calls
\* ended with: a present, an early return on an out-of-date acquire, a
\* present that reported out of date, or an error.
C38_PreviousFrameEndIsSome ==
    \A id \in Attached :
        surface_backends[id].previous_frame_end \in {"now", "future"}

\* A render call presented its frame after the call before it had failed
\* at the present.
C38_Witness ==
    /\ stats.renders = 2
    /\ frame.prev.present = "err" /\ frame.prev.result = "err"
    /\ frame.presented
    /\ surface_backends[1].previous_frame_end = "future"

\* C39: a recreate_swapchain that fails, at the recreation or at the views
\* of the new images, leaves swapchain, images and image_views as they were
\* and the recreate_swapchain flag set; in every state images are the
\* images of the current swapchain and image_views their views, one for
\* each, so that every image index is an index of image_views.
C39_FailedRecreateKeepsSwapchain ==
    /\ [](\A id \in Attached :
            LET vs == surface_backends[id]
            IN  /\ vs.images = images_of(vs.swapchain)
                /\ vs.image_views = views_of(vs.images)
                /\ DOMAIN vs.image_views = DOMAIN vs.images
                /\ DOMAIN vs.images = ImageIndices)
    /\ [][(stats'.renders = stats.renders + 1
              /\ frame'.recreate \in {"err", "views_err"})
            => /\ surface_backends'[1].swapchain = surface_backends[1].swapchain
               /\ surface_backends'[1].images = surface_backends[1].images
               /\ surface_backends'[1].image_views =
                      surface_backends[1].image_views
               /\ surface_backends'[1].extent = surface_backends[1].extent
               /\ surface_backends'[1].recreate_swapchain
               /\ frame'.result = "err" /\ frame'.acquire = "none"]_vars

\* The views of the new images could not be made at a recreation that
\* followed an earlier, successful one: the surface keeps the swapchain of
\* that one and the flag is set.
C39_Witness ==
    /\ frame.recreate = "views_err" /\ frame.prev.result = "ok"
    /\ 1 \in Attached
    /\ surface_backends[1].swapchain = 1
    /\ surface_backends[1].recreate_swapchain

\* C40: right after AvySwapchain::new and after every recreation that
\* succeeded, current_frame is 0, the fence of every element is signaled
\* and the last_fence of every element is null; the fill_frame call that
\* follows waits for no submission of the swapchain that was destroyed and
\* does not hang.
C40_FreshAfterBuild ==
    /\ []((swapchain.live /\ fill.result \in {"none", "break"}) =>
            /\ swapchain.current_frame = 0
            /\ \A i \in DOMAIN swapchain.elements :
                  /\ swapchain.elements[i].fence = "signaled"
                  /\ swapchain.elements[i].last_fence = None
                  /\ swapchain.elements[i].in_flight = None)
    /\ [][(fill.result \in {"none", "break"} /\ fill' # fill) =>
            /\ fill'.result # "hang"
            /\ ~fill'.in_flight_at_acquire /\ ~fill'.overlap]_vars

\* The swapchain was recreated at a suboptimal acquire while a frame of the
\* old swapchain was still in flight.
C40_Witness ==
    /\ swapchain.live /\ fill.result = "break"
    /\ fill.acquire = "suboptimal" /\ fill.busy_before
    /\ swapchain.current_frame = 0

====
